---- MODULE Spec2Model ----
(***************************************************************************)
(* Model of the aptitude-quiz controller (generateQuestions,               *)
(* resetQuestionPool), its question source (generateAptitudeQuestions and  *)
(* the built-in fallbackQuestions), the shuffle helper, and the            *)
(* score-submission and recommendation handlers.                           *)
(*                                                                         *)
(* Scaling.  The code takes 10 questions per section and its built-in bank *)
(* holds 10 questions per section; the model takes SectionQuota questions  *)
(* per section and its built-in bank holds SectionQuota per section.  Time *)
(* is counted in ticks, TicksPerDay ticks to the code's 24*60*60*1000 ms.  *)
(* Sequences are 1-based; answerIndex keeps the code's 0-based values.     *)
(***************************************************************************)
EXTENDS Integers, Sequences, FiniteSets, TLC

\* ------------------------------------------------------------------ bounds
\* the code's literal 10 (questions taken per section), scaled down
SectionQuota == 2
\* clock resolution: ticks per 24 hours
TicksPerDay == 1
\* number of quiz requests that carry an email
MaxRequests == 2
\* number of times the clock is advanced
MaxTicks == 2
\* longest option list of the drawn questions
MaxOptions == 3
\* number of signup and login requests that carry an email and a password
MaxAuth == 2
\* sub-scores of the recommendation engine are counted in steps of 1/Resolution
Resolution == 4
\* largest career catalog
MaxCatalog == 3

\* most calls of one kind the page makes in a run
MaxFetches == 2

\* ------------------------------------------------------- program constants
OneDay == 1 * TicksPerDay
SevenDays == 7 * OneDay
\* how far the clock can jump at once
TickSteps == {1, OneDay, SevenDays}

Sections == <<"quantitative", "logical", "verbal">>
Emails == {"a@x", "b@x"}
\* a request body without an email (undefined / empty string: falsy)
NoEmail == ""
ClassLevels == {"10th"}

\* JavaScript's undefined, as the value of options[answerIndex] out of range
Undefined == "undefined"

\* JSON booleans as the response body's ok carries them
JTrue == [t |-> "boolean", v |-> "true"]
JFalse == [t |-> "boolean", v |-> "false"]

\* ------------------------------------------------------------ array helpers
Min(a, b) == IF a < b THEN a ELSE b

\* Array.prototype.includes
Includes(arr, x) == \E i \in 1..Len(arr) : arr[i] = x

\* Array.prototype.indexOf: 0-based index of the first occurrence, or -1
indexOf(arr, x) ==
  IF Includes(arr, x)
  THEN (CHOOSE i \in 1..Len(arr) : arr[i] = x /\ \A k \in 1..(i - 1) : arr[k] # x) - 1
  ELSE -1

\* arr[idx] with a 0-based idx; undefined outside the array
At(arr, idx) == IF idx >= 0 /\ idx < Len(arr) THEN arr[idx + 1] ELSE Undefined

\* Array.prototype.slice(0, n)
Slice(arr, n) == SubSeq(arr, 1, Min(n, Len(arr)))

\* [a[i], a[j]] = [a[j], a[i]]
Swap(arr, i, j) == [arr EXCEPT ![i] = arr[j], ![j] = arr[i]]

\* the loop of shuffleArray from index i down: every j Math.random can give
RECURSIVE FisherYates(_, _)
FisherYates(shuffled, i) ==
  IF i <= 1 THEN {shuffled}
  ELSE UNION {FisherYates(Swap(shuffled, i, j), i - 1) : j \in 1..i}

\* helpers.js shuffleArray: the set of arrays it can return
shuffleArray(array) == FisherYates(array, Len(array))

\* ids of a question list, in order
IdsOf(qs) == [i \in 1..Len(qs) |-> qs[i].id]
IdSet(ids) == {ids[i] : i \in 1..Len(ids)}

\* ------------------------------------------------------------ question sets
Question(id, options, answerIndex) ==
  [id |-> id, options |-> options, answerIndex |-> answerIndex]

\* a JSON value found under a section key of a question set
JArray(items) == [type |-> "array", items |-> items]
JString == [type |-> "string", items |-> <<>>]
JMissing == [type |-> "missing", items |-> <<>>]
Truthy(sec) == sec.type # "missing"

QuestionSet(isObject, qn, lg, vb) ==
  [isObject |-> isObject, quantitative |-> qn, logical |-> lg, verbal |-> vb]

\* geminiService.js fallbackQuestions: one full quota of questions per section,
\* ids q1.., l1.., v1.., every answerIndex inside its options
fallbackQuestions ==
  QuestionSet(TRUE,
    JArray([i \in 1..SectionQuota |->
      Question(<<"q", i>>, <<"A">>, 0)]),
    JArray([i \in 1..SectionQuota |-> Question(<<"l", i>>, <<"A">>, 0)]),
    JArray([i \in 1..SectionQuota |-> Question(<<"v", i>>, <<"A">>, 0)]))

\* Replies the generative source can be parsed into (JSON.parse of its text).
\* GenReply: a double pool in quantitative, a short logical section whose ids
\* repeat quantitative ids, an empty verbal array.
GenReply ==
  QuestionSet(TRUE,
    JArray([i \in 1..(2 * SectionQuota) |-> Question(<<"n", i>>, <<"A">>, 0)]),
    JArray([i \in 1..(SectionQuota - 1) |-> Question(<<"n", i>>, <<"A">>, 0)]),
    JArray(<<>>))
\* a section that is a string instead of an array
MalformedReply == QuestionSet(TRUE, JString, JArray(<<>>), JArray(<<>>))
\* an object without the verbal section
MissingSectionReply ==
  QuestionSet(TRUE, JArray(<<Question(<<"n", 1>>, <<"A">>, 0)>>), JArray(<<>>), JMissing)
\* the JSON text "null"
NullReply == QuestionSet(FALSE, JMissing, JMissing, JMissing)

\* a single question in all
ShortReply ==
  QuestionSet(TRUE, JArray(<<Question(<<"s", 1>>, <<"A">>, 0)>>), JArray(<<>>), JArray(<<>>))

ParsedReplies == {GenReply, MalformedReply, MissingSectionReply, NullReply}

\* what the call to the generative API can come to
FailureKinds == {"network_error", "http_error", "no_text", "bad_json"}
SourceOutcomes ==
  {[kind |-> k, parsed |-> NullReply] : k \in FailureKinds}
    \cup {[kind |-> "json", parsed |-> p] : p \in ParsedReplies}

\* mutant: the parsed reply is accepted once it has a quantitative section
generateAptitudeQuestions_FirstSectionOnly(hasKey, outcome) ==
  IF ~hasKey THEN fallbackQuestions
  ELSE IF outcome.kind # "json" THEN fallbackQuestions
  ELSE IF ~outcome.parsed.isObject THEN fallbackQuestions
  ELSE IF ~Truthy(outcome.parsed.quantitative) THEN fallbackQuestions
  ELSE outcome.parsed

\* geminiService.js generateAptitudeQuestions: the question set it resolves to
generateAptitudeQuestions(hasKey, outcome) ==
  IF ~hasKey THEN fallbackQuestions
  ELSE IF outcome.kind = "network_error" THEN fallbackQuestions
  ELSE IF outcome.kind = "http_error" THEN fallbackQuestions
  ELSE IF outcome.kind = "no_text" THEN fallbackQuestions
  ELSE IF outcome.kind = "bad_json" THEN fallbackQuestions
  ELSE IF ~outcome.parsed.isObject THEN fallbackQuestions
  ELSE IF ~Truthy(outcome.parsed.quantitative) \/ ~Truthy(outcome.parsed.logical)
          \/ ~Truthy(outcome.parsed.verbal) THEN fallbackQuestions
  ELSE outcome.parsed

\* --------------------------------------------------------- processSection
\* mutant: falls back to the whole section already at exactly the quota
AvailableQuestions_OffByOne(sectionQuestions, usedIds) ==
  LET unseen == SelectSeq(sectionQuestions, LAMBDA q : ~Includes(usedIds, q.id))
  IN IF Len(unseen) <= SectionQuota THEN sectionQuestions ELSE unseen

\* availableQuestions: the unseen questions, or all when fewer than the quota
AvailableQuestions(sectionQuestions, usedIds) ==
  LET unseen == SelectSeq(sectionQuestions, LAMBDA q : ~Includes(usedIds, q.id))
  IN IF Len(unseen) < SectionQuota THEN sectionQuestions ELSE unseen

\* shuffleArray(availableQuestions).slice(0, 10)
Selections(sectionQuestions, usedIds) ==
  {Slice(s, SectionQuota) : s \in shuffleArray(AvailableQuestions(sectionQuestions, usedIds))}

\* mutant: the options shuffled, answerIndex left as it was
ShuffleOptions_StaleIndex(q) ==
  {[q EXCEPT !.options = so] : so \in shuffleArray(q.options)}

\* the map callback: shuffle the options, point answerIndex at the same text
ShuffleOptions(q) ==
  LET correctAnswer == At(q.options, q.answerIndex)
  IN {[q EXCEPT !.options = so, !.answerIndex = indexOf(so, correctAnswer)] :
        so \in shuffleArray(q.options)}

RECURSIVE MapShuffleOptions(_)
MapShuffleOptions(qs) ==
  IF qs = <<>> THEN {<<>>}
  ELSE {<<h>> \o t : h \in ShuffleOptions(Head(qs)), t \in MapShuffleOptions(Tail(qs))}

\* processSection: every section it can return
processSection(sectionQuestions, usedIds) ==
  UNION {MapShuffleOptions(sel) : sel \in Selections(sectionQuestions, usedIds)}

\* What the calls leave in the arrays they are given.
\* mutant: the swaps are done in the array itself
ArgumentAfterShuffle_InPlace(array) == shuffleArray(array)

\* helpers.js line 5: shuffleArray swaps inside the copy [...array], so the
\* array it was given can afterwards only be what it was
ArgumentAfterShuffle(array) == {array}

\* the questions of a list after the map callback has visited any of them:
\* q.options went through shuffleArray; the result is a new object { ...q },
\* so q.answerIndex is never assigned
RECURSIVE QuestionsAfterMap(_)
QuestionsAfterMap(qs) ==
  IF qs = <<>> THEN {<<>>}
  ELSE {<<[Head(qs) EXCEPT !.options = o]>> \o t :
          o \in ArgumentAfterShuffle(Head(qs).options) \cup {Head(qs).options},
          t \in QuestionsAfterMap(Tail(qs))}

\* sectionQuestions after processSection: filter builds a new array, but with
\* fewer than the quota unseen availableQuestions is sectionQuestions itself,
\* and that array goes to shuffleArray
SectionAfter(sectionQuestions, usedIds) ==
  LET unseen == SelectSeq(sectionQuestions, LAMBDA q : ~Includes(usedIds, q.id))
      orders == IF Len(unseen) < SectionQuota
                THEN ArgumentAfterShuffle(sectionQuestions)
                ELSE {sectionQuestions}
  IN UNION {QuestionsAfterMap(o) : o \in orders}

\* ------------------------------------------------------------------ state
\* --------------------------------------- the recommendation engine: score
\* A sub-score s stands for s/Resolution, in [0,1]; a composite c stands for
\* c/Resolution on the 0-10 range.  Ratings of a profile are on the 0-10 scale.
\* The engine's tables are not part of the sources at hand; the two below name
\* for a career domain the aptitudes it requires and the interests that go
\* with it, with equal weights.
RequiredAptitudes == [technical |-> {"technical"}, design |-> {"creative", "technical"}]
InterestTags == [technical |-> {"coding"}, design |-> {"design"}]

RECURSIVE SumOver(_, _)
SumOver(f, S) ==
  IF S = {} THEN 0
  ELSE LET k == CHOOSE x \in S : TRUE IN f[k] + SumOver(f, S \ {k})

\* clamp a sub-score into [0,1]
Clamp01(x) == IF x < 0 THEN 0 ELSE IF x > Resolution THEN Resolution ELSE x

\* a domain without a table entry gets the neutral 0.5
Neutral == Resolution \div 2

\* mutant: the cosine is used as it comes
Similarity_Unclamped(profile, career) ==
  IF profile.embeddingFails THEN 0 ELSE career.cosine

\* Semantic Matcher: the cosine of the two embeddings, clamped at 0; no text
\* signal when the embedding of the student text fails
Similarity(profile, career) ==
  IF profile.embeddingFails THEN 0 ELSE Clamp01(career.cosine)

\* the student's mean rating over the given keys, as a sub-score
MeanRating(ratings, keys) ==
  Clamp01((Resolution * SumOver(ratings, keys)) \div (10 * Cardinality(keys)))

\* Rule Scorer
AptitudeScore(profile, career) ==
  IF career.domain \in DOMAIN RequiredAptitudes
  THEN MeanRating(profile.aptitudes, RequiredAptitudes[career.domain])
  ELSE Neutral
InterestScore(profile, career) ==
  IF career.domain \in DOMAIN InterestTags
  THEN MeanRating(profile.interests, InterestTags[career.domain])
  ELSE Neutral

\* mutant: the weights of similarity and aptitude are exchanged
Composite_SwappedWeights(similarity, aptitude, interest) ==
  2 * similarity + 6 * aptitude + 2 * interest

\* Composite Ranker: 10 * (0.6 * similarity + 0.2 * aptitude + 0.2 * interest)
Composite(similarity, aptitude, interest) ==
  6 * similarity + 2 * aptitude + 2 * interest

\* mutant: the bands begin above their thresholds
MatchStrength_Strict(composite) ==
  IF 100 * composite > 85 * 10 * Resolution THEN "Excellent Match"
  ELSE IF 100 * composite > 70 * 10 * Resolution THEN "Very Good Match"
  ELSE IF 100 * composite > 50 * 10 * Resolution THEN "Good Match"
  ELSE "Possible Match"

\* Explanation Generator: the band of the composite fraction composite/10
MatchStrength(composite) ==
  IF 100 * composite >= 85 * 10 * Resolution THEN "Excellent Match"
  ELSE IF 100 * composite >= 70 * 10 * Resolution THEN "Very Good Match"
  ELSE IF 100 * composite >= 50 * 10 * Resolution THEN "Good Match"
  ELSE "Possible Match"

\* the ScoredCareer of the career at position id of the catalog
ScoreCareer(profile, career, id) ==
  LET similarity == Similarity(profile, career)
      aptitude == AptitudeScore(profile, career)
      interest == InterestScore(profile, career)
      composite == Composite(similarity, aptitude, interest)
  IN [id |-> id, domain |-> career.domain,
      similarity |-> similarity, aptitude |-> aptitude, interest |-> interest,
      composite |-> composite,
      explanation |-> [match_strength |-> MatchStrength(composite)]]

\* mutant: a career goes before the careers of equal composite
InsertDesc_BeforeEqual(x, sorted) ==
  LET before == {i \in 1..Len(sorted) : sorted[i].composite > x.composite}
      n == Cardinality(before)
  IN SubSeq(sorted, 1, n) \o <<x>> \o SubSeq(sorted, n + 1, Len(sorted))

\* x, which comes later in the catalog than every entry of sorted, goes after
\* the entries whose composite is at least its own
InsertDesc(x, sorted) ==
  LET before == {i \in 1..Len(sorted) : sorted[i].composite >= x.composite}
      n == Cardinality(before)
  IN SubSeq(sorted, 1, n) \o <<x>> \o SubSeq(sorted, n + 1, Len(sorted))

\* stable sort by composite, descending
RECURSIVE SortDesc(_)
SortDesc(scored) ==
  IF scored = <<>> THEN <<>>
  ELSE InsertDesc(scored[Len(scored)], SortDesc(SubSeq(scored, 1, Len(scored) - 1)))

\* score(profile, topK) over a catalog
score(profile, catalog, topK) ==
  Slice(SortDesc([i \in 1..Len(catalog) |-> ScoreCareer(profile, catalog[i], i)]), topK)

NoProfile == [aptitudes |-> [technical |-> 0, creative |-> 0],
              interests |-> [coding |-> 0, design |-> 0],
              embeddingFails |-> FALSE]

VARIABLES
  now,           \* Date.now(), in ticks
  apiKey,        \* whether GEMINI_API_KEY is set (read once at module load)
  userAttempts,  \* the controller's in-memory array of attempt records
  slots,         \* per request: where its handler stands, and its locals
  nreq,          \* number of requests received so far
  response,      \* the response sent last
  ticks,         \* number of clock advances so far
  students,      \* the students collection of the database, in insertion order
  auth,          \* the signup and login requests received and where each stands
  recommend,     \* the recommendations request that waits for the Python engine
  client,        \* the page in the browser: localStorage, the test in progress, the
                 \* screen shown and the requests it still waits for
  engine,        \* the recommendation engine: the call to score and its result
  arg,           \* processSection alone: the arguments drawn for it
  out,           \* processSection alone: what it returned
  calls          \* history of each finished quiz request: when it started, which
                 \* requests had succeeded by then, what it was given and returned,
                 \* and whether its user's pool was reset after it finished

vars == <<now, apiKey, userAttempts, slots, nreq, response, ticks, students, auth, engine, arg,
          out, calls, recommend, client>>

Requests == 1..(MaxRequests + 1)

FreeSlot == [state |-> "free", email |-> NoEmail, classLevel |-> "", usedQuestionIds |-> <<>>,
             started |-> 0, after |-> {}]
DoneSlot == [FreeSlot EXCEPT !.state = "done"]

NoCall == [ok |-> FALSE, email |-> NoEmail, started |-> 0, after |-> {},
           finished |-> 0, used |-> {},
           pool |-> fallbackQuestions,
           ids |-> [s \in {"quantitative", "logical", "verbal"} |-> <<>>],
           reset |-> FALSE]

NoArg == [sectionQuestions |-> <<>>, usedIds |-> <<>>]
NoOut == [returned |-> FALSE, section |-> <<>>]

\* no recommendations request waits for the Python engine
NoRecommend == [state |-> "none", email |-> ""]

\* the recommendation engine before any call to score
NoEngine == [called |-> FALSE, profile |-> NoProfile, catalog |-> <<>>, topK |-> 0,
             ranked |-> <<>>]

NoResponse == [req |-> 0, handler |-> "none", status |-> 0, body |-> [ok |-> JFalse]]

\* a score as it arrives in a request body or lies in the database
ScoreNumber(n) == [type |-> "number", num |-> n]
ScoreText == [type |-> "string", num |-> 0]
ScoreUndefined == [type |-> "undefined", num |-> 0]
ScoreNull == [type |-> "null", num |-> 0]

\* Student.js aptitudeScores, with its defaults
NoScores == [quantitative |-> ScoreNull, logical |-> ScoreNull, verbal |-> ScoreNull,
             testTaken |-> FALSE, testTakenAt |-> 0]

\* ------------------------------------------------------------- Student.js
\* the email and password members of a signup or login body
AuthEmails == {"a@x", "A@X", "b@x", " b@x"}
Passwords == {"p1", "p2"}
NoPassword == ""

\* String.prototype.toLowerCase and the schema's trim, on the emails at hand
ToLowerCase(email) == IF email = "A@X" THEN "a@x" ELSE email
Trim(email) == IF email = " b@x" THEN "b@x" ELSE email

\* bcrypt.hash, and bcrypt.compare of a password with a hash
Hash(password) == <<"bcrypt", password>>
Compare(password, passwordHash) == passwordHash = Hash(password)

\* a date field that holds null
NullDate == -1

\* new Student(studentData): the email setter lower-cases and trims
NewStudent(email, passwordHash) ==
  [email |-> Trim(ToLowerCase(email)), passwordHash |-> passwordHash,
   loginCount |-> 0, lastLoginAt |-> NullDate, aptitudeScores |-> NoScores]

\* Student.findByEmail: the position of the first document with this email
\* lower-cased, or 0 for null
FindByEmail(docs, email) ==
  LET hits == {i \in 1..Len(docs) : docs[i].email = ToLowerCase(email)}
  IN IF hits = {} THEN 0 ELSE CHOOSE i \in hits : \A k \in hits : i <= k

\* the paths of studentSchema that the documents at hand carry
SchemaPaths == {"email", "passwordHash", "loginCount", "lastLoginAt", "aptitudeScores"}

\* student.toObject(): a plain object with the document's schema paths; a
\* property set on the document object that is no path is not copied
toObject(doc) == [k \in DOMAIN doc \cap SchemaPaths |-> doc[k]]

\* delete object.member, for each of the members named
Delete(object, members) == [k \in DOMAIN object \ members |-> object[k]]

\* mutant: the hash is not deleted from the copy
SafeUser_KeepsHash(doc) == Delete(toObject(doc), {"__v"})

\* const safeUser = student.toObject(); delete safeUser.passwordHash;
\* delete safeUser.__v
SafeUser(doc) == Delete(toObject(doc), {"passwordHash", "__v"})

\* mutant: the collection has no unique index on email
InsertStudent_NoUniqueIndex(docs, doc) == [ok |-> TRUE, docs |-> Append(docs, doc)]

\* save() of a new document: the unique index on email refuses a second
\* document with the same email (error code 11000)
InsertStudent(docs, doc) ==
  IF \E i \in 1..Len(docs) : docs[i].email = doc.email
  THEN [ok |-> FALSE, docs |-> docs]
  ELSE [ok |-> TRUE, docs |-> Append(docs, doc)]

\* a signup or login request: its body, the document it has loaded (id, 0 for
\* none) with the fields it has set on it, and the status it was answered with
AuthRequests == 1..MaxAuth
FreeAuth == [kind |-> "free", state |-> "free", email |-> "", password |-> "", id |-> 0,
             loginCount |-> 0, lastLoginAt |-> NullDate, status |-> 0]
NoAuth == [n |-> 0, slot |-> [a \in AuthRequests |-> FreeAuth]]

\* the server after start-up: no attempts stored, nothing received; the
\* database holds one student
\* ------------------------------------------------------- public/js/app.js
\* The page keeps the profile and the session email in localStorage and the
\* test in progress in module variables.
\* localStorage without the profile key: getStoredUser() is null
NoUser == [email |-> NoEmail, password |-> NoPassword, aptitudeScores |-> NoScores]

\* currentAptitudeQuestions before any test: null.  A question is kept as its
\* answerIndex, a section as the list of its questions.
NoQuestions == [isNull |-> TRUE, quantitative |-> <<>>, logical |-> <<>>, verbal |-> <<>>]

\* answers = {}
NoAnswers == <<>>
\* no question has been rendered
NoKey == <<"", 0>>

NoClient ==
  [user |-> NoUser,                        \* localStorage[USER_KEY]
   session |-> NoEmail,                    \* localStorage[SESSION_KEY]
   currentAptitudeQuestions |-> NoQuestions,
   currentSectionIndex |-> 0,
   currentQuestionIndex |-> 0,
   answers |-> NoAnswers,
   rendered |-> NoKey,       \* the answerKey the radio inputs on the page write to
   screen |-> "home",        \* the screen shown: home, test, results, recommendations
   started |-> 0,            \* calls of startAptitudeTest so far
   questionsWaiting |-> 0,   \* calls of startAptitudeTest that wait for their reply
   scoresWaiting |-> {},     \* calls of saveScores that wait, with their locals
   profileWaiting |-> NoEmail,   \* the email whose profile the boot waits for
   submitted |-> 0,          \* login and signup forms submitted so far
   formWaiting |-> {},       \* login and signup submits that wait, with their locals
   loggedOut |-> FALSE,      \* the user has logged out and no login or signup has
                             \* succeeded since
   asked |-> 0,              \* requests sent to /recommendations so far
   recommendationsWaiting |-> 0,   \* of these, the ones that wait for their reply
   chosen |-> NoAnswers]     \* the options chosen since the test in progress started

\* lines 104-108
isLoggedIn(c) == c.user # NoUser /\ c.session # NoEmail /\ c.user.email = c.session

\* the option indexes of a question's radio inputs
OptionIndexes == {0, 1}

\* question sets a 200 answer of /api/aptitude-questions can carry: full
\* sections, a section of one question whose answerIndex is -1, empty sections
FullSection == [i \in 1..SectionQuota |-> i % 2]
QuestionSetsSent ==
  {[isNull |-> FALSE, quantitative |-> qn, logical |-> lg, verbal |-> vb] :
     qn \in {<<>>, FullSection}, lg \in {<<>>, <<-1>>, FullSection},
     vb \in {<<>>, FullSection}}

\* lines 657-741: the page shows the current question, or is left as it was
renderCurrentQuestion(c) ==
  IF c.currentAptitudeQuestions.isNull THEN c
  ELSE LET key == Sections[c.currentSectionIndex + 1]
           questions == c.currentAptitudeQuestions[key]
       IN IF Len(questions) = 0 THEN c
          ELSE IF c.currentQuestionIndex >= Len(questions) THEN c
          ELSE [c EXCEPT !.rendered = <<key, c.currentQuestionIndex>>]

\* mutant: the answers of the test before are kept
BeginTest_KeepAnswers(c, questions) ==
  renderCurrentQuestion(
    [c EXCEPT !.currentAptitudeQuestions = questions,
              !.currentSectionIndex = 0,
              !.currentQuestionIndex = 0,
              !.screen = "test",
              !.chosen = NoAnswers])

\* lines 765-769 and openAptitudeTest, lines 140-148
BeginTest(c, questions) ==
  renderCurrentQuestion(
    [c EXCEPT !.currentAptitudeQuestions = questions,
              !.currentSectionIndex = 0,
              !.currentQuestionIndex = 0,
              !.answers = NoAnswers,
              !.screen = "test",
              !.chosen = NoAnswers])

\* answers[answerKey] = optIdx
SetAnswer(answers, answerKey, optIdx) ==
  [k \in DOMAIN answers \cup {answerKey} |-> IF k = answerKey THEN optIdx ELSE answers[k]]

\* lines 862-869: the forEach over the questions from index on
RECURSIVE CountCorrect(_, _, _, _)
CountCorrect(answers, key, questions, index) ==
  IF index >= Len(questions) THEN 0
  ELSE LET answerKey == <<key, index>>
           hit == answerKey \in DOMAIN answers /\ answers[answerKey] = questions[index + 1]
       IN (IF hit THEN 1 ELSE 0) + CountCorrect(answers, key, questions, index + 1)

\* lines 854-871: the scores object
CalculateScores(c) ==
  [s \in {"quantitative", "logical", "verbal"} |->
     CountCorrect(c.answers, s, c.currentAptitudeQuestions[s], 0)]

\* lines 873-891: keep the scores in the stored profile, send them to the
\* server when a profile with an email is stored, show the results
calculateAndShowResults(c, t) ==
  LET scores == CalculateScores(c)
      aptitudeScores == [quantitative |-> ScoreNumber(scores.quantitative),
                         logical |-> ScoreNumber(scores.logical),
                         verbal |-> ScoreNumber(scores.verbal),
                         testTaken |-> TRUE, testTakenAt |-> t]
      user == IF c.user = NoUser THEN NoUser
              ELSE [c.user EXCEPT !.aptitudeScores = aptitudeScores]
  IN [c EXCEPT !.user = user,
               !.scoresWaiting = IF user = NoUser THEN @ ELSE @ \cup {user},
               !.screen = "results"]

\* the server after start-up
InitBackend ==
  /\ now = 0
  /\ apiKey \in BOOLEAN
  /\ userAttempts = <<>>
  /\ slots = [r \in Requests |-> FreeSlot]
  /\ nreq = 0
  /\ response = NoResponse
  /\ ticks = 0
  /\ students = <<NewStudent("a@x", Hash("p1"))>>
  /\ auth = NoAuth
  /\ recommend = NoRecommend
  /\ calls = [r \in Requests |-> NoCall]

\* the server after start-up and a page with an empty localStorage
InitServer ==
  /\ InitBackend
  /\ client = NoClient

Init ==
  /\ InitServer
  /\ engine = NoEngine
  /\ arg = NoArg
  /\ out = NoOut

\* ----------------------------------------------------- generateQuestions
\* mutant: the look-back compares with the seven-day limit
RecentAttempts_WeekBack(attempts, email, t) ==
  SelectSeq(attempts, LAMBDA a : a.userEmail = email /\ a.timestamp >= t - SevenDays)

\* mutant: the look-back takes the attempts of every user
RecentAttempts_AnyUser(attempts, email, t) ==
  SelectSeq(attempts, LAMBDA a : a.timestamp >= t - OneDay)

\* mutant: the look-back leaves out attempts made at the same instant
RecentAttempts_NotNow(attempts, email, t) ==
  SelectSeq(attempts, LAMBDA a : a.userEmail = email /\ a.timestamp >= t - OneDay
                                 /\ a.timestamp < t)

\* lines 53-58: this user's attempts of the last 24 hours
RecentAttempts(attempts, email, t) ==
  SelectSeq(attempts, LAMBDA a : a.userEmail = email /\ a.timestamp >= t - OneDay)

\* lines 60-66: their question ids, concatenated
RECURSIVE ConcatIds(_)
ConcatIds(attempts) ==
  IF attempts = <<>> THEN <<>>
  ELSE Head(attempts).questionIds \o ConcatIds(Tail(attempts))

UsedQuestionIds(attempts, email, t) == ConcatIds(RecentAttempts(attempts, email, t))

\* mutant: an attempt exactly seven days old is dropped too
PruneOld_Strict(attempts, t) ==
  SelectSeq(attempts, LAMBDA a : a.timestamp > t - SevenDays)

\* lines 124-130: keep the attempts of the last 7 days
PruneOld(attempts, t) ==
  SelectSeq(attempts, LAMBDA a : a.timestamp >= t - SevenDays)

\* mutant: the array is rebuilt from the attempts of the last 24 hours
StoreAttempt_DayOnly(attempts, rec, t) ==
  SelectSeq(Append(attempts, rec), LAMBDA a : a.timestamp >= t - OneDay)

\* mutant: the attempt is pushed twice
StoreAttempt_Twice(attempts, rec, t) == PruneOld(Append(Append(attempts, rec), rec), t)

\* lines 117-130: push this attempt, then clean up
StoreAttempt(attempts, rec, t) == PruneOld(Append(attempts, rec), t)

\* .filter on a section that is not an array throws a TypeError
Throws(allQuestions) ==
  \E s \in {"quantitative", "logical", "verbal"} : allQuestions[s].type # "array"

\* lines 73-139: the handler from the return of the question source on
Complete(r, email, classLevel, usedIds, allQuestions, started, after) ==
  IF Throws(allQuestions)
  THEN /\ response' = [req |-> r, handler |-> "generateQuestions", status |-> 500,
                       body |-> [ok |-> JFalse,
                                 message |-> "Unable to generate questions at the moment."]]
       /\ calls' = [calls EXCEPT ![r] = [NoCall EXCEPT !.email = email, !.finished = now,
                                                       !.started = started, !.after = after,
                                                       !.used = IdSet(usedIds),
                                                       !.pool = allQuestions]]
       /\ UNCHANGED userAttempts
  ELSE \E qn \in processSection(allQuestions.quantitative.items, usedIds),
          lg \in processSection(allQuestions.logical.items, usedIds),
          vb \in processSection(allQuestions.verbal.items, usedIds) :
         LET questions == [quantitative |-> qn, logical |-> lg, verbal |-> vb]
             allQuestionIds == IdsOf(qn) \o IdsOf(lg) \o IdsOf(vb)
             rec == [userEmail |-> email, classLevel |-> classLevel,
                     questionIds |-> allQuestionIds, timestamp |-> now, req |-> r]
         IN /\ userAttempts' = StoreAttempt(userAttempts, rec, now)
            /\ response' = [req |-> r, handler |-> "generateQuestions", status |-> 200,
                            body |-> [ok |-> JTrue, questions |-> questions]]
            /\ calls' = [calls EXCEPT ![r] =
                 [ok |-> TRUE, email |-> email, started |-> started, after |-> after,
                  finished |-> now, used |-> IdSet(usedIds),
                  pool |-> allQuestions,
                  ids |-> [quantitative |-> IdsOf(qn), logical |-> IdsOf(lg),
                           verbal |-> IdsOf(vb)],
                  reset |-> FALSE]]

\* a POST /api/aptitude-questions arrives: lines 42-71.  Without an API key the
\* question source resolves with no I/O, so the handler runs to its end at once.
GenerateQuestions(email, classLevel) ==
  IF email = NoEmail
  THEN /\ response' = [req |-> 0, handler |-> "generateQuestions", status |-> 400,
                       body |-> [ok |-> JFalse, message |-> "User email is required"]]
       /\ UNCHANGED <<now, apiKey, client, userAttempts, slots, nreq, ticks, students, auth, engine, arg, out, calls, recommend>>
  ELSE
  /\ nreq' = nreq + 1
  /\ LET r == nreq + 1
         usedQuestionIds == UsedQuestionIds(userAttempts, email, now)
         after == {p \in Requests : calls[p].ok}
     IN IF apiKey
        THEN /\ slots' = [slots EXCEPT ![r] =
                  [state |-> "awaiting", email |-> email, classLevel |-> classLevel,
                   usedQuestionIds |-> usedQuestionIds, started |-> now, after |-> after]]
             /\ UNCHANGED <<userAttempts, response, calls>>
        ELSE /\ slots' = [slots EXCEPT ![r] = DoneSlot]
             /\ Complete(r, email, classLevel, usedQuestionIds,
                         generateAptitudeQuestions(FALSE, [kind |-> "json", parsed |-> NullReply]),
                         now, after)
  /\ UNCHANGED <<now, apiKey, client, ticks, students, auth, engine, arg, out, recommend>>

\* the awaited question source settles: lines 69-139
SourceReturns(r, outcome) ==
  /\ slots[r].state = "awaiting"
  /\ slots' = [slots EXCEPT ![r] = DoneSlot]
  /\ Complete(r, slots[r].email, slots[r].classLevel, slots[r].usedQuestionIds,
              generateAptitudeQuestions(apiKey, outcome), slots[r].started, slots[r].after)
  /\ UNCHANGED <<now, apiKey, client, nreq, ticks, students, auth, engine, arg, out, recommend>>

\* ----------------------------------------------------- resetQuestionPool
\* mutant: the array is emptied for every user
RemoveAttempts_All(attempts, email) == <<>>

\* lines 156-162: drop every attempt of this user
RemoveAttempts(attempts, email) ==
  SelectSeq(attempts, LAMBDA a : a.userEmail # email)

\* mutant: the email is not looked at
ResetQuestionPool_NoCheck(email) ==
  /\ userAttempts' = RemoveAttempts(userAttempts, email)
  /\ response' = [req |-> 0, handler |-> "resetQuestionPool", status |-> 200,
                  body |-> [ok |-> JTrue, message |-> "Question pool reset successfully"]]
  /\ UNCHANGED <<now, apiKey, client, slots, nreq, ticks, students, auth, engine, arg, out, calls,
                 recommend>>

\* lines 145-177
ResetQuestionPool(email) ==
  /\ IF email = NoEmail
     THEN /\ response' = [req |-> 0, handler |-> "resetQuestionPool", status |-> 400,
                          body |-> [ok |-> JFalse, message |-> "User email is required"]]
          /\ UNCHANGED <<userAttempts, calls>>
     ELSE /\ userAttempts' = RemoveAttempts(userAttempts, email)
          /\ response' = [req |-> 0, handler |-> "resetQuestionPool", status |-> 200,
                          body |-> [ok |-> JTrue, message |-> "Question pool reset successfully"]]
          /\ calls' = [r \in Requests |->
               IF calls[r].ok /\ calls[r].email = email
               THEN [calls[r] EXCEPT !.reset = TRUE] ELSE calls[r]]
  /\ UNCHANGED <<now, apiKey, client, slots, nreq, ticks, students, auth, engine, arg, out, recommend>>

\* ------------------------------------------------------------ submitScores
\* the scores member of a request body: absent, not an object, or an object
\* whose members are numbers inside or outside 0..10, text that is no number,
\* or absent
ScoreValues == {ScoreNumber(n) : n \in {-1, 0, 11}} \cup {ScoreText, ScoreUndefined}
ScoresInputs ==
  {[type |-> "undefined"], [type |-> "string"]}
    \cup {[type |-> "object", quantitative |-> q, logical |-> l, verbal |-> v] :
            q \in ScoreValues,
            l \in {ScoreNumber(0), ScoreNumber(11), ScoreText},
            v \in {ScoreNumber(0), ScoreNumber(-1), ScoreUndefined}}

\* lines 201-203: x < 0 || x > 10; a comparison with undefined or with text
\* that is no number is false
OutOfRange(x) == x.type = "number" /\ (x.num < 0 \/ x.num > 10)

\* Student.js lines 48-52: the schema casts each score to Number when the
\* document is saved; text that is no number fails the cast
CastFails(x) == x.type = "string"

\* the database answers both calls, or fails the lookup, or fails the save
DbOutcomes == {"ok", "find_error", "save_error"}

\* POST /api/submit-scores: lines 180-244; db is what the database does with
\* the handler's two calls
SubmitScores(email, scores, db) ==
  LET Reply(status, body) ==
        response' = [req |-> 0, handler |-> "submitScores", status |-> status, body |-> body]
      Refuse(status, message) ==
        /\ Reply(status, [ok |-> JFalse, message |-> message])
        /\ UNCHANGED students
  IN
  /\ IF email = NoEmail
     THEN Refuse(400, "User email is required")
     ELSE IF scores.type # "object"
     THEN Refuse(400, "Scores object is required")
     ELSE IF OutOfRange(scores.quantitative) \/ OutOfRange(scores.logical)
               \/ OutOfRange(scores.verbal)
     THEN Refuse(400, "Scores must be between 0 and 10")
     ELSE IF db = "find_error"
     THEN Refuse(500, "Failed to save scores")
     ELSE IF FindByEmail(students, email) = 0
     THEN Refuse(404, "Student not found")
     ELSE IF db = "save_error" \/ CastFails(scores.quantitative) \/ CastFails(scores.logical)
               \/ CastFails(scores.verbal)
     THEN Refuse(500, "Failed to save scores")
     ELSE LET aptitudeScores == [quantitative |-> scores.quantitative,
                                 logical |-> scores.logical,
                                 verbal |-> scores.verbal,
                                 testTaken |-> TRUE, testTakenAt |-> now]
          IN /\ students' = [students EXCEPT
                               ![FindByEmail(students, email)].aptitudeScores = aptitudeScores]
             /\ Reply(200, [ok |-> JTrue, message |-> "Scores saved successfully",
                            scores |-> aptitudeScores])
  /\ UNCHANGED <<now, apiKey, client, userAttempts, slots, nreq, ticks, auth, engine, arg, out, calls, recommend>>

\* -------------------------------------------------------- getRecommendations
\* what the Python engine can do with a forwarded profile: the connection
\* fails, it answers with an error status, its body is no JSON, or its body
\* is a JSON value
JNull == [t |-> "null", v |-> "null"]
JNumber == [t |-> "number", v |-> "5"]
JText == [t |-> "string", v |-> "text"]
JObject(members) == [t |-> "object", members |-> members]
EngineReplies ==
  {JNull, JNumber,
   JObject([success |-> JTrue, recommendations |-> JText]),
   JObject([success |-> JFalse, error |-> JText]),
   JObject([ok |-> JFalse, error |-> JText]),
   JObject([ok |-> JText, recommendations |-> JText])}
EngineOutcomes ==
  {[kind |-> k] : k \in {"network_error", "http_error", "bad_json"}}
    \cup {[kind |-> "json", value |-> v] : v \in EngineReplies}

\* { ...a, ...b }: the members of b replace those of a
Spread(a, b) ==
  [k \in DOMAIN a \cup DOMAIN b |-> IF k \in DOMAIN b THEN b[k] ELSE a[k]]

\* the members an object spread copies from a JSON value
OwnMembers(value) == IF value.t = "object" THEN value.members ELSE <<>>

\* pythonEngineService.getRecommendations: the JSON value of the reply, or a
\* thrown error
EngineResult(outcome) ==
  IF outcome.kind = "json" THEN [thrown |-> FALSE, value |-> outcome.value]
  ELSE [thrown |-> TRUE, value |-> JNull]

\* POST /api/recommendations: authController.js lines 128-157
GetRecommendations(email, outcome) ==
  LET Reply(status, body) ==
        response' = [req |-> 0, handler |-> "getRecommendations", status |-> status,
                     body |-> body]
      recommendations == EngineResult(outcome)
  IN
  /\ IF email = NoEmail
     THEN Reply(400, [ok |-> JFalse, message |-> "Student email is required"])
     ELSE IF recommendations.thrown \/ recommendations.value = JNull
     THEN Reply(500, [ok |-> JFalse,
                      message |-> "Unable to generate recommendations at this time."])
     ELSE Reply(200, Spread([ok |-> JTrue], OwnMembers(recommendations.value)))
  /\ UNCHANGED <<now, apiKey, client, userAttempts, slots, nreq, ticks, students, auth, engine, arg, out, calls, recommend>>

\* ------------------------------------------------------------ signup, login
\* A handler of authController.js runs from one await to the next without
\* interruption.  bcrypt.hash and bcrypt.compare are awaited too, but touch no
\* shared state: a handler is modelled up to the database call it waits for.
AuthReply(handler, status, body) ==
  response' = [req |-> 0, handler |-> handler, status |-> status, body |-> body]
AuthRefuse(handler, status, message) ==
  AuthReply(handler, status, [ok |-> JFalse, message |-> message])
\* the request in slot a is answered
AuthDone(a, status) ==
  auth' = [auth EXCEPT !.slot[a].state = "done", !.slot[a].status = status]
\* a request with both members starts and waits for findByEmail
AuthStart(kind, email, password) ==
  auth' = [n |-> auth.n + 1,
           slot |-> [auth.slot EXCEPT ![auth.n + 1] =
                       [FreeAuth EXCEPT !.kind = kind, !.state = "finding",
                                        !.email = email, !.password = password]]]

\* POST /api/login arrives: lines 70-82
Login(email, password) ==
  /\ IF email = NoEmail \/ password = NoPassword
     THEN /\ AuthRefuse("login", 400, "Email and password are required.")
          /\ UNCHANGED auth
     ELSE /\ AuthStart("login", email, password)
          /\ UNCHANGED response
  /\ UNCHANGED <<now, apiKey, client, userAttempts, slots, nreq, ticks, students, engine, arg, out,
                 calls, recommend>>

\* mutant: an email that is not registered is answered 404
LoginFinds_NoAccount(a, db) ==
  LET s == auth.slot[a]
      id == FindByEmail(students, s.email)
  IN
  /\ s.kind = "login" /\ s.state = "finding"
  /\ IF db = "error"
     THEN AuthRefuse("login", 500, "Internal server error.") /\ AuthDone(a, 500)
     ELSE IF id = 0
     THEN AuthRefuse("login", 404, "No account with this email.") /\ AuthDone(a, 404)
     ELSE IF ~Compare(s.password, students[id].passwordHash)
     THEN AuthRefuse("login", 401, "Invalid email or password.") /\ AuthDone(a, 401)
     ELSE /\ auth' = [auth EXCEPT !.slot[a].state = "saving", !.slot[a].id = id,
                                  !.slot[a].lastLoginAt = now,
                                  !.slot[a].loginCount = students[id].loginCount + 1]
          /\ UNCHANGED response
  /\ UNCHANGED <<now, apiKey, client, userAttempts, slots, nreq, ticks, students, engine, arg, out,
                 calls, recommend>>

\* findByEmail settles: lines 82-100 and recordLogin up to its save
LoginFinds(a, db) ==
  LET s == auth.slot[a]
      id == FindByEmail(students, s.email)
  IN
  /\ s.kind = "login" /\ s.state = "finding"
  /\ IF db = "error"
     THEN AuthRefuse("login", 500, "Internal server error.") /\ AuthDone(a, 500)
     ELSE IF id = 0
     THEN AuthRefuse("login", 401, "Invalid email or password.") /\ AuthDone(a, 401)
     ELSE IF ~Compare(s.password, students[id].passwordHash)
     THEN AuthRefuse("login", 401, "Invalid email or password.") /\ AuthDone(a, 401)
     ELSE /\ auth' = [auth EXCEPT !.slot[a].state = "saving", !.slot[a].id = id,
                                  !.slot[a].lastLoginAt = now,
                                  !.slot[a].loginCount = students[id].loginCount + 1]
          /\ UNCHANGED response
  /\ UNCHANGED <<now, apiKey, client, userAttempts, slots, nreq, ticks, students, engine, arg, out,
                 calls, recommend>>

\* the save of recordLogin settles: Student.js lines 123-127, then lines 102-113.
\* save() writes the fields the handler has set on its copy of the document.
LoginSaves(a, db) ==
  LET s == auth.slot[a] IN
  /\ s.kind = "login" /\ s.state = "saving"
  /\ IF db = "error"
     THEN /\ AuthRefuse("login", 500, "Internal server error.")
          /\ AuthDone(a, 500)
          /\ UNCHANGED students
     ELSE /\ students' = [students EXCEPT ![s.id].loginCount = s.loginCount,
                                          ![s.id].lastLoginAt = s.lastLoginAt]
          /\ AuthReply("login", 200,
                       [ok |-> JTrue, message |-> "Login successful",
                        user |-> SafeUser([students[s.id] EXCEPT
                                             !.loginCount = s.loginCount,
                                             !.lastLoginAt = s.lastLoginAt]),
                        lastLoginAt |-> s.lastLoginAt, loginCount |-> s.loginCount])
          /\ AuthDone(a, 200)
  /\ UNCHANGED <<now, apiKey, client, userAttempts, slots, nreq, ticks, engine, arg, out, calls, recommend>>

\* POST /api/signup arrives: lines 7-23
Signup(email, password) ==
  /\ IF email = NoEmail \/ password = NoPassword
     THEN /\ AuthRefuse("signup", 400, "Email and password are required.")
          /\ UNCHANGED auth
     ELSE /\ AuthStart("signup", email, password)
          /\ UNCHANGED response
  /\ UNCHANGED <<now, apiKey, client, userAttempts, slots, nreq, ticks, students, engine, arg, out,
                 calls, recommend>>

\* findByEmail settles: lines 23-38, up to the save of the loaded or the new
\* document
SignupFinds(a, db) ==
  LET s == auth.slot[a] IN
  /\ s.kind = "signup" /\ s.state = "finding"
  /\ IF db = "error"
     THEN AuthRefuse("signup", 500, "Internal server error.") /\ AuthDone(a, 500)
     ELSE /\ auth' = [auth EXCEPT !.slot[a].state = "saving",
                                  !.slot[a].id = FindByEmail(students, s.email)]
          /\ UNCHANGED response
  /\ UNCHANGED <<now, apiKey, client, userAttempts, slots, nreq, ticks, students, engine, arg, out,
                 calls, recommend>>

\* the save settles: lines 29 or 38, then lines 41-64
SignupSaves(a, db) ==
  LET s == auth.slot[a]
      inserted == InsertStudent(students, NewStudent(s.email, Hash(s.password)))
      Created(docs, id) ==
        /\ students' = docs
        /\ AuthReply("signup", 200,
                     [ok |-> JTrue,
                      user |-> SafeUser(Delete(Spread(docs[id], [password |-> s.password]),
                                               {"password"})),
                      message |-> IF docs[id].loginCount = 0
                                  THEN "Account created successfully"
                                  ELSE "Account updated successfully"])
        /\ AuthDone(a, 200)
  IN
  /\ s.kind = "signup" /\ s.state = "saving"
  /\ IF db = "error"
     THEN /\ AuthRefuse("signup", 500, "Internal server error.")
          /\ AuthDone(a, 500)
          /\ UNCHANGED students
     ELSE IF s.id # 0
     THEN Created([students EXCEPT ![s.id].passwordHash = Hash(s.password)], s.id)
     ELSE IF inserted.ok
     THEN Created(inserted.docs, Len(inserted.docs))
     ELSE /\ AuthRefuse("signup", 400, "Email already exists.")
          /\ AuthDone(a, 400)
          /\ UNCHANGED students
  /\ UNCHANGED <<now, apiKey, client, userAttempts, slots, nreq, ticks, engine, arg, out, calls, recommend>>

\* GET /api/profile/:email: profileController.js lines 6-31
GetProfile(email, db) ==
  LET student == FindByEmail(students, email) IN
  /\ IF db = "error"
     THEN AuthReply("getProfile", 500, [ok |-> JFalse, message |-> "Internal server error."])
     ELSE IF student = 0
     THEN AuthReply("getProfile", 404, [ok |-> JFalse, message |-> "Profile not found."])
     ELSE AuthReply("getProfile", 200, [ok |-> JTrue, user |-> SafeUser(students[student])])
  /\ UNCHANGED <<now, apiKey, client, userAttempts, slots, nreq, ticks, students, auth, engine,
                 arg, out, calls, recommend>>

\* ------------------------------------------- requests that wait for a reply
\* node-fetch is called without a timeout (geminiService.js:318,
\* pythonEngineService.js:12): the promise of a call the other side never
\* answers never settles
SourceSilent(r) ==
  /\ slots[r].state = "awaiting"
  /\ slots' = [slots EXCEPT ![r].state = "silent"]
  /\ UNCHANGED <<now, apiKey, client, userAttempts, nreq, response, ticks, students, auth, engine,
                 arg, out, calls, recommend>>

\* POST /api/recommendations arrives: authController.js lines 128-142
ForwardRecommendations(email) ==
  /\ recommend.state \in {"none", "done"}
  /\ IF email = NoEmail
     THEN /\ response' = [req |-> 0, handler |-> "getRecommendations", status |-> 400,
                          body |-> [ok |-> JFalse, message |-> "Student email is required"]]
          /\ UNCHANGED recommend
     ELSE /\ recommend' = [state |-> "awaiting", email |-> email]
          /\ UNCHANGED response
  /\ UNCHANGED <<now, apiKey, client, userAttempts, slots, nreq, ticks, students, auth, engine, arg,
                 out, calls>>

\* the call to the Python engine settles: lines 142-156
EngineReturns(outcome) ==
  LET recommendations == EngineResult(outcome)
      Reply(status, body) ==
        response' = [req |-> 0, handler |-> "getRecommendations", status |-> status,
                     body |-> body]
  IN
  /\ recommend.state = "awaiting"
  /\ recommend' = [recommend EXCEPT !.state = "done"]
  /\ IF recommendations.thrown \/ recommendations.value = JNull
     THEN Reply(500, [ok |-> JFalse,
                      message |-> "Unable to generate recommendations at this time."])
     ELSE Reply(200, Spread([ok |-> JTrue], OwnMembers(recommendations.value)))
  /\ UNCHANGED <<now, apiKey, client, userAttempts, slots, nreq, ticks, students, auth, engine, arg,
                 out, calls>>

\* the Python engine never answers
EngineSilent ==
  /\ recommend.state = "awaiting"
  /\ recommend' = [recommend EXCEPT !.state = "silent"]
  /\ UNCHANGED <<now, apiKey, client, userAttempts, slots, nreq, response, ticks, students, auth,
                 engine, arg, out, calls>>

\* time passes
Tick(d) ==
  /\ ticks' = ticks + 1
  /\ now' = now + d
  /\ UNCHANGED <<apiKey, client, userAttempts, slots, nreq, response, students, auth, engine, arg, out, calls, recommend>>

\* The quiz controller under requests that carry an email.
Next ==
  \/ \E email \in Emails, classLevel \in ClassLevels :
       nreq < MaxRequests /\ GenerateQuestions(email, classLevel)
  \/ \E r \in Requests, outcome \in SourceOutcomes : SourceReturns(r, outcome)
  \/ \E email \in Emails : ResetQuestionPool(email)
  \/ \E d \in TickSteps : ticks < MaxTicks - 1 /\ Tick(d)

Spec == Init /\ [][Next]_vars

\* The quiz controller under requests with and without an email.
NextQuiz ==
  \/ Next
  \/ \E classLevel \in ClassLevels : GenerateQuestions(NoEmail, classLevel)

SpecQuiz == Init /\ [][NextQuiz]_vars

\* The attempt history over a longer run of requests: the generative source is
\* configured and always replies ShortReply.
InitHistory == Init /\ apiKey

NextHistory ==
  \/ \E email \in Emails, classLevel \in ClassLevels :
       nreq < MaxRequests + 1 /\ GenerateQuestions(email, classLevel)
  \/ \E r \in Requests : SourceReturns(r, [kind |-> "json", parsed |-> ShortReply])
  \/ \E email \in Emails : ResetQuestionPool(email)
  \/ \E d \in TickSteps : ticks < MaxTicks /\ Tick(d)

SpecHistory == InitHistory /\ [][NextHistory]_vars

\* The four handlers of the API under any request body, with one quiz request
\* whose question source fails, replies out of shape, or is not configured.
NextApi ==
  \/ \E email \in Emails \cup {NoEmail}, classLevel \in ClassLevels :
       nreq < MaxRequests - 1 /\ GenerateQuestions(email, classLevel)
  \/ \E r \in Requests, outcome \in SourceOutcomes \ {[kind |-> "json", parsed |-> GenReply]} :
       SourceReturns(r, outcome)
  \/ \E email \in Emails \cup {NoEmail} : ResetQuestionPool(email)
  \/ \E email \in Emails \cup {NoEmail}, scores \in ScoresInputs, db \in DbOutcomes :
       SubmitScores(email, scores, db)
  \/ \E email \in Emails \cup {NoEmail}, outcome \in EngineOutcomes :
       GetRecommendations(email, outcome)

SpecApi == Init /\ [][NextApi]_vars

\* Signup and login, with requests of the same account overlapping.
NextAuth ==
  \/ \E email \in AuthEmails \cup {NoEmail}, password \in Passwords \cup {NoPassword} :
       auth.n < MaxAuth /\ Login(email, password)
  \/ \E a \in AuthRequests, db \in {"ok", "error"} : LoginFinds(a, db)
  \/ \E a \in AuthRequests, db \in {"ok", "error"} : LoginSaves(a, db)
  \/ \E email \in AuthEmails \cup {NoEmail}, password \in Passwords \cup {NoPassword} :
       auth.n < MaxAuth /\ Signup(email, password)
  \/ \E a \in AuthRequests, db \in {"ok", "error"} : SignupFinds(a, db)
  \/ \E a \in AuthRequests, db \in {"ok", "error"} : SignupSaves(a, db)

InitAuth == Init /\ ~apiKey

SpecAuth == InitAuth /\ [][NextAuth]_vars

\* The handlers that read or write a student's document: signup and login as
\* above, the profile of any email, and scores that pass or fail validation.
AccountScores ==
  {[type |-> "undefined"],
   [type |-> "object", quantitative |-> ScoreNumber(0), logical |-> ScoreNumber(0),
    verbal |-> ScoreNumber(0)],
   [type |-> "object", quantitative |-> ScoreNumber(11), logical |-> ScoreNumber(0),
    verbal |-> ScoreNumber(0)]}

NextAccount ==
  \/ NextAuth
  \/ \E email \in AuthEmails, db \in {"ok", "error"} : GetProfile(email, db)
  \/ \E email \in Emails \cup {NoEmail}, scores \in AccountScores, db \in DbOutcomes :
       SubmitScores(email, scores, db)

SpecAccount == InitAuth /\ [][NextAccount]_vars

\* One quiz request and recommendations requests, each with a collaborator
\* that answers, fails or stays silent.  The event loop runs the continuation
\* of every call that settles.
NextLive ==
  \/ \E email \in Emails, classLevel \in ClassLevels :
       nreq < MaxRequests - 1 /\ GenerateQuestions(email, classLevel)
  \/ \E r \in Requests, outcome \in SourceOutcomes \ {[kind |-> "json", parsed |-> GenReply]} :
       SourceReturns(r, outcome)
  \/ \E r \in Requests : SourceSilent(r)
  \/ \E email \in Emails \cup {NoEmail} : ForwardRecommendations(email)
  \/ \E outcome \in EngineOutcomes : EngineReturns(outcome)
  \/ EngineSilent

SpecLive ==
  /\ Init
  /\ [][NextLive]_vars
  /\ WF_vars(\E r \in Requests, outcome \in SourceOutcomes : SourceReturns(r, outcome))
  /\ WF_vars(\E outcome \in EngineOutcomes : EngineReturns(outcome))

\* ------------------------------------------------- the page: the test
\* what the page leaves alone: everything on the server
ServerUnchanged ==
  UNCHANGED <<now, apiKey, userAttempts, slots, nreq, response, ticks, students, auth, engine,
              arg, out, calls, recommend>>

\* startAptitudeTest up to its fetch: lines 743-759
StartAptitudeTest ==
  /\ client.screen = "home"
  /\ isLoggedIn(client)
  /\ client.started < MaxFetches
  /\ client' = [client EXCEPT !.started = @ + 1, !.questionsWaiting = @ + 1]
  /\ ServerUnchanged

\* what the fetch of the questions can come to: no answer or ok: false, or
\* ok: true with a question set
QuestionsReplies ==
  {[ok |-> FALSE, questions |-> NoQuestions]}
    \cup {[ok |-> TRUE, questions |-> q] : q \in QuestionSetsSent}

\* startAptitudeTest after its fetch: lines 760-773
QuestionsArrive(reply) ==
  /\ client.questionsWaiting > 0
  /\ LET c == [client EXCEPT !.questionsWaiting = @ - 1]
     IN client' = IF reply.ok THEN BeginTest(c, reply.questions) ELSE c
  /\ ServerUnchanged

\* the change listener of a radio input: lines 709-715
SelectOption(optIdx) ==
  /\ client.screen = "test"
  /\ client.rendered # NoKey
  /\ client' = [client EXCEPT !.answers = SetAnswer(@, client.rendered, optIdx),
                              !.chosen = SetAnswer(@, client.rendered, optIdx)]
  /\ ServerUnchanged

\* the questions of the current section
CurrentQuestions(c) == c.currentAptitudeQuestions[Sections[c.currentSectionIndex + 1]]

\* lines 806-813
nextQuestion(c) ==
  IF c.currentQuestionIndex < Len(CurrentQuestions(c)) - 1
  THEN renderCurrentQuestion([c EXCEPT !.currentQuestionIndex = @ + 1])
  ELSE c

\* lines 815-820
prevQuestion(c) ==
  IF c.currentQuestionIndex > 0
  THEN renderCurrentQuestion([c EXCEPT !.currentQuestionIndex = @ - 1])
  ELSE c

\* lines 822-851; confirmed is the user's answer to the confirm dialog
submitCurrentSection(c, confirmed, t) ==
  LET key == Sections[c.currentSectionIndex + 1]
      allAnswered == \A i \in 0..(Len(CurrentQuestions(c)) - 1) : <<key, i>> \in DOMAIN c.answers
  IN IF ~allAnswered /\ ~confirmed THEN c
     ELSE IF c.currentSectionIndex < Len(Sections) - 1
     THEN renderCurrentQuestion([c EXCEPT !.currentSectionIndex = @ + 1,
                                          !.currentQuestionIndex = 0])
     ELSE calculateAndShowResults(c, t)

\* a click on the next, previous or submit-section button of the test screen
NextQuestion ==
  /\ client.screen = "test"
  /\ client' = nextQuestion(client)
  /\ ServerUnchanged

PrevQuestion ==
  /\ client.screen = "test"
  /\ client' = prevQuestion(client)
  /\ ServerUnchanged

SubmitCurrentSection(confirmed) ==
  /\ client.screen = "test"
  /\ client' = submitCurrentSection(client, confirmed, now)
  /\ ServerUnchanged

\* closeResultsScreen: lines 163-167
CloseResults ==
  /\ client.screen = "results"
  /\ client' = [client EXCEPT !.screen = "home"]
  /\ ServerUnchanged

\* a page on which a@x has logged in
LoggedInClient ==
  [NoClient EXCEPT !.user = [email |-> "a@x", password |-> "p1", aptitudeScores |-> NoScores],
                   !.session = "a@x"]

InitTest ==
  /\ InitBackend
  /\ ~apiKey
  /\ engine = NoEngine
  /\ arg = NoArg
  /\ out = NoOut
  /\ client = LoggedInClient

NextTest ==
  \/ StartAptitudeTest
  \/ \E reply \in QuestionsReplies : QuestionsArrive(reply)
  \/ \E optIdx \in OptionIndexes : SelectOption(optIdx)
  \/ NextQuestion
  \/ PrevQuestion
  \/ \E confirmed \in BOOLEAN : SubmitCurrentSection(confirmed)
  \/ CloseResults

SpecTest == InitTest /\ [][NextTest]_vars

\* ------------------------------------- the page: fetchRecommendations
\* line 202: an average up to this one is too low for recommendations
PassAverage == 4

\* x ?? 0
OrZero(x) == IF x.type \in {"null", "undefined"} THEN 0 ELSE x.num

\* mutant: only an average below 4 is too low
AverageTooLow_Below(scores) ==
  OrZero(scores.quantitative) + OrZero(scores.logical) + OrZero(scores.verbal)
    < 3 * PassAverage

\* lines 197-202: (quantScore + logicScore + verbalScore) / 3 <= 4
AverageTooLow(scores) ==
  OrZero(scores.quantitative) + OrZero(scores.logical) + OrZero(scores.verbal)
    <= 3 * PassAverage

\* lines 182-258: the guards, then the screen and the request
fetchRecommendations(c) ==
  IF c.user = NoUser THEN c
  ELSE IF ~c.user.aptitudeScores.testTaken THEN c
  ELSE IF AverageTooLow(c.user.aptitudeScores) THEN c
  ELSE [c EXCEPT !.screen = "recommendations",
                 !.asked = @ + 1,
                 !.recommendationsWaiting = @ + 1]

\* a click on the view-recommendations button
FetchRecommendations ==
  /\ client.asked < MaxFetches
  /\ client' = fetchRecommendations(client)
  /\ ServerUnchanged

\* lines 260-304: the reply, or the failure, is shown
RecommendationsArrive ==
  /\ client.recommendationsWaiting > 0
  /\ client' = [client EXCEPT !.recommendationsWaiting = @ - 1]
  /\ ServerUnchanged

\* closeRecommendationsScreen: lines 176-180
CloseRecommendations ==
  /\ client.screen = "recommendations"
  /\ client' = [client EXCEPT !.screen = "home"]
  /\ ServerUnchanged

\* the logout buttons: lines 1146-1162, clearSession lines 95-98
Logout ==
  /\ client.user # NoUser \/ client.session # NoEmail
  /\ client' = [client EXCEPT !.user = NoUser, !.session = NoEmail, !.loggedOut = TRUE]
  /\ ServerUnchanged

\* aptitudeScores as a profile sent by the server carries them: no test
\* taken, or three scores of which any can be null
ScoresSent ==
  {NoScores}
    \cup {[quantitative |-> q, logical |-> l, verbal |-> v, testTaken |-> TRUE,
           testTakenAt |-> 0] :
            q \in {ScoreNull, ScoreNumber(4), ScoreNumber(10)},
            l \in {ScoreNull, ScoreNumber(4), ScoreNumber(5)},
            v \in {ScoreNumber(0), ScoreNumber(4), ScoreNumber(5)}}

\* a page opened with what earlier visits left in localStorage: nothing, or
\* the profile of a@x as a login stored it
InitAdvice ==
  /\ InitBackend
  /\ ~apiKey
  /\ engine = NoEngine
  /\ arg = NoArg
  /\ out = NoOut
  /\ client \in {NoClient}
       \cup {[LoggedInClient EXCEPT !.user.aptitudeScores = scores] : scores \in ScoresSent}

NextAdvice ==
  \/ FetchRecommendations
  \/ RecommendationsArrive
  \/ CloseRecommendations
  \/ Logout

SpecAdvice == InitAdvice /\ [][NextAdvice]_vars

\* ----------------------------------------- the page: login and logout
\* saveScores after its fetch, lines 513-524: user is the profile read before
\* the fetch; the server sends back the scores it stored
ScoresArrive(user, ok) ==
  /\ user \in client.scoresWaiting
  /\ LET c == [client EXCEPT !.scoresWaiting = @ \ {user}]
         data == [scores |-> [user.aptitudeScores EXCEPT !.testTakenAt = now]]
     IN client' = IF ok THEN [c EXCEPT !.user = [user EXCEPT !.aptitudeScores = data.scores]]
                  ELSE c
  /\ ServerUnchanged

\* the boot after fetchProfileFromServer, lines 1287-1291: the profile the
\* server sends has no password
ProfileArrives(ok) ==
  /\ client.profileWaiting # NoEmail
  /\ LET c == [client EXCEPT !.profileWaiting = NoEmail]
         userFromServer == [email |-> client.profileWaiting, password |-> NoPassword,
                            aptitudeScores |-> NoScores]
     IN client' = IF ok THEN [c EXCEPT !.user = userFromServer] ELSE c
  /\ ServerUnchanged

\* handleLoginSubmit and handleSignupSubmit up to their fetch: lines 948-958
\* and 1012-1075
SubmitForm(form, email, password) ==
  /\ client.submitted < MaxFetches
  /\ client' = [client EXCEPT
       !.submitted = @ + 1,
       !.formWaiting = @ \cup {[form |-> form, email |-> email, password |-> password]}]
  /\ ServerUnchanged

\* lines 974-987 and 993-1006: the local profile stands in for the server
OfflineLogin(c, email, password) ==
  IF c.user # NoUser /\ c.user.email = email /\ c.user.password = password
  THEN [c EXCEPT !.session = email]
  ELSE c

\* what the server's answer to a form can be: ok: true with the profile,
\* ok: false, or no answer (the fetch fails)
FormReplies == {"ok", "refused", "failed"}

\* both handlers after their fetch: lines 959-1009 and 1076-1094
FormArrives(w, reply) ==
  /\ w \in client.formWaiting
  /\ LET c == [client EXCEPT !.formWaiting = @ \ {w}]
         user == [email |-> w.email, aptitudeScores |-> NoScores]
     IN client' =
          IF reply = "ok"
          THEN [c EXCEPT !.user = [email |-> user.email, password |-> w.password,
                                   aptitudeScores |-> user.aptitudeScores],
                         !.session = user.email,
                         !.loggedOut = FALSE]
          ELSE IF w.form = "login" THEN OfflineLogin(c, w.email, w.password)
          ELSE c
  /\ ServerUnchanged

\* the one question set whose sections are all full
FullSet ==
  [isNull |-> FALSE, quantitative |-> FullSection, logical |-> FullSection,
   verbal |-> FullSection]

\* a page loaded with the session and the profile of a@x in localStorage: the
\* boot asks the server for the profile, lines 1284-1287
InitSession ==
  /\ InitBackend
  /\ ~apiKey
  /\ engine = NoEngine
  /\ arg = NoArg
  /\ out = NoOut
  /\ client = [LoggedInClient EXCEPT !.profileWaiting = "a@x"]

NextSession ==
  \/ StartAptitudeTest
  \/ QuestionsArrive([ok |-> TRUE, questions |-> FullSet])
  \/ SubmitCurrentSection(TRUE)
  \/ CloseResults
  \/ \E user \in client.scoresWaiting, ok \in BOOLEAN : ScoresArrive(user, ok)
  \/ \E ok \in BOOLEAN : ProfileArrives(ok)
  \/ \E form \in {"login", "signup"}, password \in Passwords : SubmitForm(form, "a@x", password)
  \/ \E w \in client.formWaiting, reply \in FormReplies : FormArrives(w, reply)
  \/ Logout

SpecSession == InitSession /\ [][NextSession]_vars

\* ------------------------------------------------- processSection alone
\* Sequences over S of length at most n.
RECURSIVE SeqsUpTo(_, _)
SeqsUpTo(S, n) ==
  IF n = 0 THEN {<<>>}
  ELSE LET shorter == SeqsUpTo(S, n - 1)
       IN shorter \cup {Append(s, x) : s \in {z \in shorter : Len(z) = n - 1}, x \in S}

\* option lists, with repeated texts and the empty list; and four distinct
\* options, as every built-in question has
OptionLists == SeqsUpTo({"A", "B", "C"}, MaxOptions) \cup {<<"A", "B", "C", "D">>}

\* one question with any option list and any answerIndex, valid or not
OptionInputs ==
  {[sectionQuestions |-> <<Question(1, opts, ai)>>, usedIds |-> <<>>] :
     opts \in OptionLists, ai \in -1..(MaxOptions + 1)}

\* sections of single-option questions, ids repeated or not, and any seen ids
PoolIds == 1..(SectionQuota + 1)
SelectionInputs ==
  {[sectionQuestions |-> [i \in 1..Len(ids) |-> Question(ids[i], <<"A">>, 0)],
    usedIds |-> used] :
     ids \in SeqsUpTo(PoolIds, SectionQuota + 1),
     used \in {u \in SeqsUpTo(PoolIds, SectionQuota + 1) :
                 \A i \in 1..(Len(u) - 1) : u[i] < u[i + 1]}}

InitSection ==
  /\ InitServer
  /\ engine = NoEngine
  /\ ~apiKey
  /\ arg \in OptionInputs \cup SelectionInputs
  /\ out = NoOut

CallProcessSection ==
  /\ ~out.returned
  /\ \E section \in processSection(arg.sectionQuestions, arg.usedIds) :
       out' = [returned |-> TRUE, section |-> section]
  /\ \E after \in SectionAfter(arg.sectionQuestions, arg.usedIds) :
       arg' = [arg EXCEPT !.sectionQuestions = after]
  /\ UNCHANGED <<now, apiKey, client, userAttempts, slots, nreq, response, ticks, students, auth, engine, calls, recommend>>

NextSection == CallProcessSection

SpecSection == InitSection /\ [][NextSection]_vars

\* ------------------------------------------------------------ score alone
Ratings == {0, 5, 10}
Profiles ==
  {[aptitudes |-> [technical |-> t, creative |-> c],
    interests |-> [coding |-> g, design |-> 10],
    embeddingFails |-> f] :
     t \in Ratings, c \in {0, 10}, g \in Ratings, f \in BOOLEAN}
\* the cosine of a career's description with the student's text
Cosines == {-Resolution, Resolution - 1, Resolution}
Careers ==
  {[domain |-> d, cosine |-> x] : d \in {"technical", "design", "unlisted"}, x \in Cosines}
Catalogs == SeqsUpTo(Careers, MaxCatalog)
TopKs == {0, 1, MaxCatalog, MaxCatalog + 1}

InitScore ==
  /\ InitServer
  /\ ~apiKey
  /\ arg = NoArg
  /\ out = NoOut
  /\ engine \in {[NoEngine EXCEPT !.profile = p, !.catalog = c, !.topK = k] :
                   p \in Profiles, c \in Catalogs, k \in TopKs}

CallScore ==
  /\ ~engine.called
  /\ engine' = [engine EXCEPT !.called = TRUE,
                              !.ranked = score(engine.profile, engine.catalog, engine.topK)]
  /\ UNCHANGED <<now, apiKey, client, userAttempts, slots, nreq, response, ticks, students, auth,
                 arg, out, calls, recommend>>

NextScore == CallScore

SpecScore == InitScore /\ [][NextScore]_vars

\* ------------------------------------------------------------------ claims
\* number of positions of arr holding x
Count(arr, x) == Cardinality({i \in 1..Len(arr) : arr[i] = x})
IsPermutation(a, b) ==
  /\ Len(a) = Len(b)
  /\ \A i \in 1..Len(a) : Count(a, a[i]) = Count(b, a[i])
ValidIndex(q) == q.answerIndex >= 0 /\ q.answerIndex < Len(q.options)

\* C1: every question processSection returns is a source question with the
\* same id whose options are permuted; when the source answerIndex is valid,
\* the returned answerIndex is valid and points at the same option text.
C1_AnswerKept ==
  out.returned =>
    \A i \in 1..Len(out.section) :
      \E j \in 1..Len(arg.sectionQuestions) :
        LET q == out.section[i]
            src == arg.sectionQuestions[j]
        IN /\ q.id = src.id
           /\ IsPermutation(q.options, src.options)
           /\ ValidIndex(src) =>
                /\ ValidIndex(q)
                /\ q.options[q.answerIndex + 1] = src.options[src.answerIndex + 1]

\* C1 witness: a question with distinct options came back with its options
\* reordered and its answerIndex moved
C1_Witness ==
  /\ out.returned
  /\ Len(arg.sectionQuestions) = 1
  /\ Len(out.section) = 1
  /\ ValidIndex(arg.sectionQuestions[1])
  /\ Len(arg.sectionQuestions[1].options) >= 3
  /\ out.section[1].options # arg.sectionQuestions[1].options
  /\ out.section[1].answerIndex # arg.sectionQuestions[1].answerIndex

\* positions of the section whose id is not among the seen ids
UnseenPositions == {j \in 1..Len(arg.sectionQuestions) :
                      arg.sectionQuestions[j].id \notin IdSet(arg.usedIds)}
\* the candidate pool, as positions of the section
CandidatePositions ==
  IF Cardinality(UnseenPositions) >= SectionQuota
  THEN UnseenPositions ELSE 1..Len(arg.sectionQuestions)

\* C4: the returned questions are entries of the candidate pool (the unseen
\* questions when there are at least SectionQuota of them, else the whole
\* section), each pool entry returned at most once.
C4_DrawnFromPool ==
  out.returned =>
    \E f \in [1..Len(out.section) -> CandidatePositions] :
      /\ \A i, k \in 1..Len(out.section) : i # k => f[i] # f[k]
      /\ \A i \in 1..Len(out.section) :
           /\ out.section[i].id = arg.sectionQuestions[f[i]].id
           /\ IsPermutation(out.section[i].options, arg.sectionQuestions[f[i]].options)

\* C4 witness: some question was seen, exactly SectionQuota are unseen, and a
\* full quota was returned
C4_Witness ==
  /\ out.returned
  /\ Cardinality(UnseenPositions) = SectionQuota
  /\ Len(arg.sectionQuestions) > SectionQuota
  /\ Len(out.section) = SectionQuota

SectionNames == {"quantitative", "logical", "verbal"}

\* C2: every successful quiz response holds exactly SectionQuota questions in
\* each of its three sections.
C2_FullSections ==
  (response.handler = "generateQuestions" /\ response.status = 200) =>
    \A s \in SectionNames : Len(response.body.questions[s]) = SectionQuota

\* distinct question ids of section s of a question set
PoolIdSet(pool, s) == {pool[s].items[i].id : i \in 1..Len(pool[s].items)}
\* number of questions of section s whose id is not in used
UnseenCount(pool, s, used) ==
  Cardinality({i \in 1..Len(pool[s].items) : pool[s].items[i].id \notin used})
\* every id request r returned, in any section
ReturnedIds(r) == UNION {IdSet(calls[r].ids[s]) : s \in SectionNames}

\* r2 is a successful call of the same user as the successful call r1, started
\* after r1 had finished and at most within bound ticks of it, given the same
\* question set, with no reset of the user's pool after r1
Successive(r1, r2, within) ==
  /\ r1 # r2
  /\ calls[r1].ok /\ calls[r2].ok
  /\ calls[r1].email = calls[r2].email
  /\ r1 \in calls[r2].after
  /\ calls[r2].started - calls[r1].finished <= within
  /\ calls[r1].pool = calls[r2].pool
  /\ ~calls[r1].reset

\* C3 as stated: two successive calls less than 24 hours apart return disjoint
\* ids in every section whose pool holds at least 2 * SectionQuota distinct ids.
C3_AlwaysDisjoint ==
  \A r1, r2 \in Requests :
    Successive(r1, r2, OneDay - 1) =>
      \A s \in SectionNames :
        Cardinality(PoolIdSet(calls[r1].pool, s)) >= 2 * SectionQuota =>
          IdSet(calls[r1].ids[s]) \cap IdSet(calls[r2].ids[s]) = {}

\* C3 amended: in such a section the second call returns no id the first call
\* returned (in any section) when at least SectionQuota questions of the pool
\* have ids outside the ids excluded for the second call; otherwise the second
\* call has still succeeded, with questions of the full pool.
C3_DisjointWhileUnseen ==
  \A r1, r2 \in Requests :
    Successive(r1, r2, OneDay) =>
      \A s \in SectionNames :
        Cardinality(PoolIdSet(calls[r1].pool, s)) >= 2 * SectionQuota =>
          IF UnseenCount(calls[r2].pool, s, calls[r2].used) >= SectionQuota
          THEN /\ IdSet(calls[r2].ids[s]) \cap ReturnedIds(r1) = {}
               /\ Len(calls[r2].ids[s]) = SectionQuota
          ELSE /\ IdSet(calls[r2].ids[s]) \subseteq PoolIdSet(calls[r2].pool, s)
               /\ Len(calls[r2].ids[s]) = SectionQuota

\* C3 witness: a second call that had a full quota of unseen questions left in
\* a double pool and returned them
C3_Witness ==
  \E r1, r2 \in Requests :
    /\ Successive(r1, r2, OneDay)
    /\ Cardinality(PoolIdSet(calls[r1].pool, "quantitative")) >= 2 * SectionQuota
    /\ UnseenCount(calls[r2].pool, "quantitative", calls[r2].used) >= SectionQuota
    /\ Len(calls[r1].ids["quantitative"]) = SectionQuota
    /\ Len(calls[r2].ids["quantitative"]) = SectionQuota

\* the request received in this step, its email and its excluded ids
Received == nreq' = nreq + 1
ReceivedEmail ==
  IF slots'[nreq'].state = "awaiting" THEN slots'[nreq'].email ELSE calls'[nreq'].email
ReceivedUsed ==
  IF slots'[nreq'].state = "awaiting"
  THEN IdSet(slots'[nreq'].usedQuestionIds) ELSE calls'[nreq'].used

\* C5: the ids excluded for a request are exactly the ids of the stored attempts
\* of the same email that are at most 24 hours old when the request arrives;
\* older attempts contribute nothing.
C5_ExcludedIds ==
  [][Received =>
       ReceivedUsed =
         UNION {IdSet(userAttempts[i].questionIds) :
                  i \in {k \in 1..Len(userAttempts) :
                           /\ userAttempts[k].userEmail = ReceivedEmail
                           /\ now - userAttempts[k].timestamp <= OneDay}}]_vars

\* C5 witness: a call that excluded nothing although an attempt of the same
\* user, more than 24 hours old at its start, was stored then and still is
C5_Witness ==
  \E r \in Requests : \E i \in 1..Len(userAttempts) :
    /\ calls[r].ok
    /\ userAttempts[i].userEmail = calls[r].email
    /\ userAttempts[i].req \in calls[r].after
    /\ calls[r].started - userAttempts[i].timestamp > OneDay
    /\ userAttempts[i].questionIds # <<>>
    /\ calls[r].used = {}

\* the entries of arr at the positions in keep, in their order
KeptInOrder(arr, keep) ==
  [k \in 1..Cardinality(keep) |->
     arr[CHOOSE i \in keep : Cardinality({j \in keep : j <= i}) = k]]

\* a request of this email has read the history and awaits the question source
InFlight(email) ==
  \E r \in Requests : slots[r].state = "awaiting" /\ slots[r].email = email

\* C6: a pool reset leaves exactly the attempts of the other users, in their
\* order; and a request of a user all of whose stored attempts were reset,
\* arriving while no other request of that user is in flight, excludes nothing.
C6_ResetClearsOwn ==
  [][\A email \in Emails :
       /\ ResetQuestionPool(email) =>
            userAttempts' =
              KeptInOrder(userAttempts,
                          {i \in 1..Len(userAttempts) : userAttempts[i].userEmail # email})
       /\ (/\ Received
           /\ ReceivedEmail = email
           /\ ~InFlight(email)
           /\ \E p \in Requests : calls[p].ok /\ calls[p].email = email
           /\ \A p \in Requests : (calls[p].ok /\ calls[p].email = email) => calls[p].reset)
            => ReceivedUsed = {}]_vars

\* C6 witness: a user's call excluded nothing right after that user's earlier
\* call, whose attempt was reset, while another user's attempt is still stored
C6_Witness ==
  \E r1, r2 \in Requests :
    /\ calls[r1].ok /\ calls[r2].ok /\ calls[r1].reset
    /\ calls[r1].email = calls[r2].email
    /\ r1 \in calls[r2].after
    /\ calls[r2].started = calls[r1].finished
    /\ calls[r2].used = {}
    /\ \E i \in 1..Len(userAttempts) : userAttempts[i].userEmail # calls[r1].email

\* positions of userAttempts holding the attempt of request r
PositionsOf(r) == {i \in 1..Len(userAttempts) : userAttempts[i].req = r}

\* C7: the attempt of every successful quiz request is stored, once, with its
\* email and its question ids, unless it is older than 7 days or its user's pool
\* was reset after it was appended; and an attempt is appended only in the step
\* in which its request's wait for the question source ends, the same step
\* leaving no attempt older than 7 days.
C7_NoLostAttempt ==
  /\ [](\A r \in Requests :
          (calls[r].ok /\ ~calls[r].reset /\ now - calls[r].finished <= SevenDays) =>
            /\ Cardinality(PositionsOf(r)) = 1
            /\ \A i \in PositionsOf(r) :
                 /\ userAttempts[i].userEmail = calls[r].email
                 /\ IdSet(userAttempts[i].questionIds) = ReturnedIds(r)
                 /\ userAttempts[i].timestamp = calls[r].finished)
  /\ [][\A r \in Requests :
          (/\ \E i \in 1..Len(userAttempts') : userAttempts'[i].req = r
           /\ \A i \in 1..Len(userAttempts) : userAttempts[i].req # r) =>
            /\ apiKey => slots[r].state = "awaiting"
            /\ slots'[r].state = "done"
            /\ \A i \in 1..Len(userAttempts') :
                 now' - userAttempts'[i].timestamp <= SevenDays]_vars

\* C7 witness: two users' requests overlapped (neither had finished when the
\* other started) and both attempts are stored
C7_Witness ==
  \E r1, r2 \in Requests :
    /\ calls[r1].ok /\ calls[r2].ok
    /\ calls[r1].email # calls[r2].email
    /\ r1 \notin calls[r2].after /\ r2 \notin calls[r1].after
    /\ PositionsOf(r1) # {} /\ PositionsOf(r2) # {}

\* C8: the step in which a quiz request completes successfully leaves in
\* userAttempts the attempts that were stored and are at most 7 days old, in
\* their order, followed by the attempt of this request.
C8_PruneKeepsRecent ==
  [][\A r \in Requests :
       (calls'[r].ok /\ ~calls[r].ok) =>
         LET keep == {i \in 1..Len(userAttempts) :
                        now - userAttempts[i].timestamp <= SevenDays}
             n == Len(userAttempts')
         IN /\ n = Cardinality(keep) + 1
            /\ SubSeq(userAttempts', 1, n - 1) = KeptInOrder(userAttempts, keep)
            /\ userAttempts'[n].req = r
            /\ userAttempts'[n].timestamp = now
            /\ userAttempts'[n].userEmail = calls'[r].email]_vars

\* C8 witness: the third request's attempt follows the second's, which is one
\* day old, and the first's, now eight days old, is gone though never reset
C8_Witness ==
  /\ Len(userAttempts) = 2
  /\ userAttempts[1].req = 2 /\ userAttempts[2].req = 3
  /\ userAttempts[1].timestamp < now
  /\ calls[1].ok /\ ~calls[1].reset
  /\ now - calls[1].finished > SevenDays

\* a source outcome after which the code falls back on the built-in set
FallsBack(outcome) ==
  \/ outcome.kind \in FailureKinds
  \/ outcome.parsed \in {MissingSectionReply, NullReply}

\* the last response is the success of request r on the built-in set
ServedBuiltIn(r) ==
  /\ response'.req = r
  /\ response'.status = 200
  /\ response'.body.ok = JTrue
  /\ calls'[r].ok
  /\ calls'[r].pool = fallbackQuestions
  /\ \A s \in SectionNames :
       /\ fallbackQuestions[s].type = "array"
       /\ Len(fallbackQuestions[s].items) = SectionQuota
       /\ \A i \in 1..SectionQuota : ValidIndex(fallbackQuestions[s].items[i])
       /\ IdSet(calls'[r].ids[s]) \subseteq PoolIdSet(fallbackQuestions, s)

\* C9: without an API key, and when the wait of a request ends with the question
\* set that the source yields for a failed call, a non-OK status, a reply
\* without text, unparsable text or a parsed reply lacking a section (or null),
\* the request is served from the built-in set, which holds SectionQuota
\* questions per section with valid answer indexes, and succeeds.
C9_FallbackServed ==
  [][/\ \A r \in Requests, outcome \in SourceOutcomes :
          (/\ slots[r].state = "awaiting" /\ slots'[r].state = "done"
           /\ FallsBack(outcome)
           /\ calls'[r].pool = generateAptitudeQuestions(apiKey, outcome))
            => ServedBuiltIn(r)
     /\ (Received /\ ~apiKey) => ServedBuiltIn(nreq')]_vars

\* C9 witness: with an API key configured, the last response is a success
\* served from the built-in set
C9_Witness ==
  /\ apiKey
  /\ response.handler = "generateQuestions"
  /\ response.status = 200
  /\ response.req \in Requests
  /\ calls[response.req].pool = fallbackQuestions
  /\ \A s \in SectionNames : Len(response.body.questions[s]) = SectionQuota

\* C10: every answer of the quiz, pool-reset, score-submission and
\* recommendation handlers carries a boolean ok; an answer that is not ok: true
\* has an error status and a message, and an answer with an error status is
\* ok: false.
C10_WellFormedAnswer ==
  response.handler # "none" =>
    /\ "ok" \in DOMAIN response.body
    /\ response.body.ok \in {JTrue, JFalse}
    /\ response.body.ok = JFalse <=> response.status >= 400
    /\ response.body.ok = JFalse => "message" \in DOMAIN response.body

\* the ids a request of this email would exclude if it arrived in this state
ExclusionSet(attempts, email, t) == IdSet(UsedQuestionIds(attempts, email, t))

\* this step is a quiz request arriving, a wait for the question source ending,
\* or a pool reset, under an email other than the given one
StepOfOther(email) ==
  \/ Received /\ ReceivedEmail # email
  \/ \E r \in Requests :
       slots[r].state = "awaiting" /\ slots'[r].state = "done" /\ slots[r].email # email
  \/ \E other \in Emails \ {email} : ResetQuestionPool(other)

\* C11: no quiz or reset step made under another email changes the ids that a
\* request of a student would exclude, nor the order in which that student's
\* recent attempts are read.
C11_OthersDoNotInterfere ==
  [][\A email \in Emails :
       StepOfOther(email) =>
         /\ ExclusionSet(userAttempts', email, now') = ExclusionSet(userAttempts, email, now)
         /\ UsedQuestionIds(userAttempts', email, now')
              = UsedQuestionIds(userAttempts, email, now)]_vars

\* C11 witness: after a student's call another student made a call and had the
\* pool reset, and the first student's next request would still exclude exactly
\* the ids of that first call
C11_Witness ==
  \E r1, r2 \in Requests :
    /\ calls[r1].ok /\ calls[r2].ok
    /\ calls[r1].email # calls[r2].email
    /\ r1 \in calls[r2].after
    /\ calls[r2].reset /\ ~calls[r1].reset
    /\ ReturnedIds(r1) # {}
    /\ ExclusionSet(userAttempts, calls[r1].email, now) = ReturnedIds(r1)

\* the scored careers a call to score has returned
Ranked == IF engine.called THEN {engine.ranked[i] : i \in 1..Len(engine.ranked)} ELSE {}

\* C12: the composite of every scored career is 10 * (0.6 * similarity +
\* 0.2 * aptitude + 0.2 * interest) of its own three sub-scores; with
\* similarity 1, aptitude 0 and interest 0 it is 6.0.
C12_CompositeBlend ==
  \A e \in Ranked :
    /\ 10 * e.composite = 10 * (6 * e.similarity + 2 * e.aptitude + 2 * e.interest)
    /\ (e.similarity = Resolution /\ e.aptitude = 0 /\ e.interest = 0)
         => e.composite = 6 * Resolution

\* C12 witness: a scored career with similarity 1, aptitude 0, interest 0 and
\* composite 6.0
C12_Witness ==
  \E e \in Ranked :
    /\ e.similarity = Resolution /\ e.aptitude = 0 /\ e.interest = 0
    /\ e.composite = 6 * Resolution

\* C13: every sub-score of a scored career lies in [0,1], the similarity of a
\* career whose cosine is negative is 0, and the composite lies in [0,10].
C13_ScoresInRange ==
  \A e \in Ranked :
    /\ e.similarity \in 0..Resolution
    /\ e.aptitude \in 0..Resolution
    /\ e.interest \in 0..Resolution
    /\ e.composite \in 0..(10 * Resolution)
    /\ engine.catalog[e.id].cosine < 0 => e.similarity = 0

\* C13 witness: a scored career whose cosine with the student's text, which
\* was embedded, is negative, and whose similarity is 0
C13_Witness ==
  \E e \in Ranked :
    /\ ~engine.profile.embeddingFails
    /\ engine.catalog[e.id].cosine < 0
    /\ e.similarity = 0

\* the composite of the career at position id of the catalog of the call
CompositeOf(id) == ScoreCareer(engine.profile, engine.catalog[id], id).composite
\* career a ranks before career b: higher composite, or equal and earlier
RanksBefore(a, b) ==
  \/ CompositeOf(a) > CompositeOf(b)
  \/ CompositeOf(a) = CompositeOf(b) /\ a < b

\* C14: score returns min(topK, catalog size) careers of the catalog, each
\* once, by descending composite and, among equal composites, in catalog
\* order; no career left out ranks before a returned one; an empty catalog
\* gives an empty list.
C14_RankedOrder ==
  engine.called =>
    LET r == engine.ranked
        n == Len(engine.catalog)
        ids == {r[i].id : i \in 1..Len(r)}
    IN /\ Len(r) = Min(engine.topK, n)
       /\ ids \subseteq 1..n
       /\ \A i, j \in 1..Len(r) : i < j => RanksBefore(r[i].id, r[j].id)
       /\ \A i \in 1..Len(r) : r[i].composite = CompositeOf(r[i].id)
       /\ \A a \in (1..n) \ ids : \A b \in ids : RanksBefore(b, a)
       /\ n = 0 => r = <<>>

\* C14 witness: of three careers the second is returned alone: it beats the
\* first and ties with the third
C14_Witness ==
  /\ engine.called
  /\ Len(engine.catalog) = 3
  /\ engine.topK = 1
  /\ Len(engine.ranked) = 1
  /\ engine.ranked[1].id = 2
  /\ CompositeOf(2) > CompositeOf(1)
  /\ CompositeOf(2) = CompositeOf(3)

OkLogins(id) ==
  {a \in AuthRequests : /\ auth.slot[a].kind = "login"
                        /\ auth.slot[a].state = "done"
                        /\ auth.slot[a].status = 200
                        /\ auth.slot[a].id = id}
\* every login request received has been answered
NoLoginPending ==
  \A a \in AuthRequests : auth.slot[a].kind = "login" => auth.slot[a].state = "done"

\* C17: once every login request is answered, each student's loginCount is the
\* number of logins answered as successful, and lastLoginAt is set exactly when
\* there was one; rejected logins have changed neither.
C17_LoginCount ==
  NoLoginPending =>
    \A id \in 1..Len(students) :
      /\ students[id].loginCount = Cardinality(OkLogins(id))
      /\ students[id].lastLoginAt # NullDate <=> OkLogins(id) # {}

\* a signup whose save settles in this step
SignupSettles(a) ==
  /\ auth.slot[a].kind = "signup"
  /\ auth.slot[a].state = "saving"
  /\ auth'.slot[a].state = "done"
\* the email a signup would store is already stored
EmailStored(docs, email) ==
  \E i \in 1..Len(docs) : docs[i].email = Trim(ToLowerCase(email))

\* C18: no two student records have the same lower-cased email; a signup that
\* found its email updates that record and adds none; a signup that found none
\* and whose email is stored by the time it saves changes nothing and, unless
\* the database fails, is answered 400.
C18_OneRecordPerEmail ==
  /\ [](\A i, j \in 1..Len(students) :
          i # j => ToLowerCase(students[i].email) # ToLowerCase(students[j].email))
  /\ [][\A a \in AuthRequests :
          SignupSettles(a) =>
            /\ auth.slot[a].id # 0 =>
                 /\ Len(students') = Len(students)
                 /\ auth'.slot[a].status = 200 =>
                      students'[auth.slot[a].id].passwordHash = Hash(auth.slot[a].password)
            /\ (auth.slot[a].id = 0 /\ EmailStored(students, auth.slot[a].email)) =>
                 /\ students' = students
                 /\ auth'.slot[a].status \in {400, 500}
                 /\ auth'.slot[a].status = 400 <=> response'.body.message = "Email already exists."
            /\ (auth.slot[a].id = 0 /\ ~EmailStored(students, auth.slot[a].email)
                  /\ auth'.slot[a].status = 200) =>
                 Len(students') = Len(students) + 1]_vars

\* C18 witness: two signups with the same lower-cased email both found no
\* record; one created it, the other was answered 400, and one record exists
C18_Witness ==
  \E a, b \in AuthRequests :
    /\ a # b
    /\ auth.slot[a].kind = "signup" /\ auth.slot[b].kind = "signup"
    /\ auth.slot[a].state = "done" /\ auth.slot[b].state = "done"
    /\ auth.slot[a].id = 0 /\ auth.slot[b].id = 0
    /\ auth.slot[a].email # auth.slot[b].email
    /\ Trim(ToLowerCase(auth.slot[a].email)) = Trim(ToLowerCase(auth.slot[b].email))
    /\ auth.slot[a].status = 200 /\ auth.slot[b].status = 400
    /\ Cardinality({i \in 1..Len(students) :
                      students[i].email = Trim(ToLowerCase(auth.slot[a].email))}) = 1

\* the ids of a section of a response, in the order of the response
ResponseIds(section) == [i \in 1..Len(section) |-> section[i].id]
\* the requests that have a record in attempts
Recorded(attempts) == {attempts[i].req : i \in 1..Len(attempts)}

\* C19: the step that answers a quiz request with success leaves exactly one
\* record of that request, the last, with the requesting email and the ids of
\* the questions of the response, section after section; it adds no other
\* record; a step that answers a quiz request with an error, and every other
\* step, adds none.
C19_OneRecordPerSuccess ==
  [][/\ \A r \in Requests :
          (calls'[r].ok /\ ~calls[r].ok) =>
            LET n == Len(userAttempts')
                questions == response'.body.questions
            IN /\ response'.req = r /\ response'.status = 200
               /\ n >= 1
               /\ Cardinality({i \in 1..n : userAttempts'[i].req = r}) = 1
               /\ userAttempts'[n].req = r
               /\ userAttempts'[n].userEmail = calls'[r].email
               /\ apiKey => userAttempts'[n].userEmail = slots[r].email
               /\ userAttempts'[n].questionIds =
                    ResponseIds(questions.quantitative) \o ResponseIds(questions.logical)
                      \o ResponseIds(questions.verbal)
               /\ Recorded(userAttempts') \subseteq Recorded(userAttempts) \cup {r}
               /\ Len(userAttempts') <= Len(userAttempts) + 1
     /\ (\A r \in Requests : ~(calls'[r].ok /\ ~calls[r].ok)) =>
           /\ Recorded(userAttempts') \subseteq Recorded(userAttempts)
           /\ Len(userAttempts') <= Len(userAttempts)
     /\ (/\ response' # response
         /\ response'.handler = "generateQuestions"
         /\ response'.status >= 400) => userAttempts' = userAttempts]_vars

\* C19 witness: the second request was answered with an error after the first
\* had succeeded, and the first's record is the only one
C19_Witness ==
  /\ response.handler = "generateQuestions"
  /\ response.status = 500
  /\ response.req = 2
  /\ calls[1].ok
  /\ Len(userAttempts) = 1
  /\ userAttempts[1].req = 1
  /\ userAttempts[1].questionIds # <<>>

\* C20: every quiz request that carries an email is answered in the end, and
\* so is every recommendations request that carries an email.
C20_EventuallyAnswered ==
  /\ \A r \in Requests :
       (slots[r].state \in {"awaiting", "silent"}) ~> (slots[r].state = "done")
  /\ (recommend.state \in {"awaiting", "silent"}) ~> (recommend.state = "done")

\* C21: a call of processSection leaves the section it was given as it was:
\* the order of its questions, and each question's option order and
\* answerIndex.  The section given is the array of the built-in question bank
\* itself, so no quiz request changes the bank.
C21_BankUntouched == [][arg' = arg]_vars

\* C21 witness: the whole section was the candidate pool (no copy by filter),
\* it came back in another order, and the section given is still what the
\* arguments were drawn as
C21_Witness ==
  /\ out.returned
  /\ arg \in SelectionInputs
  /\ Len(arg.sectionQuestions) = SectionQuota
  /\ Cardinality(UnseenPositions) < SectionQuota
  /\ IdsOf(out.section) # IdsOf(arg.sectionQuestions)
\* r1 and r2 are successful calls of the same user that overlap: r2 was
\* received after r1 and did its history lookup before r1 had appended its
\* attempt record; both were given the same question set
Overlapping(r1, r2) ==
  /\ r1 < r2
  /\ calls[r1].ok /\ calls[r2].ok
  /\ calls[r1].email = calls[r2].email
  /\ r1 \notin calls[r2].after
  /\ calls[r1].pool = calls[r2].pool

\* C22: two overlapping calls of the same user return disjoint ids in every
\* section whose pool holds at least 2 * SectionQuota distinct ids.
C22_OverlapDisjoint ==
  \A r1, r2 \in Requests :
    Overlapping(r1, r2) =>
      \A s \in SectionNames :
        Cardinality(PoolIdSet(calls[r1].pool, s)) >= 2 * SectionQuota =>
          IdSet(calls[r1].ids[s]) \cap IdSet(calls[r2].ids[s]) = {}
\* a quiz or pool-reset request whose body has no email is handled in this step
WithoutEmail ==
  \/ \E classLevel \in ClassLevels : GenerateQuestions(NoEmail, classLevel)
  \/ ResetQuestionPool(NoEmail)

\* C23: a quiz or pool-reset request without an email is answered 400 with
\* ok: false, leaves userAttempts as it was, and starts no call of the question
\* source (no request is counted, no handler waits, no call is recorded).
C23_NoEmailRefused ==
  [][WithoutEmail =>
       /\ response'.status = 400
       /\ response'.body.ok = JFalse
       /\ response'.handler \in {"generateQuestions", "resetQuestionPool"}
       /\ userAttempts' = userAttempts
       /\ slots' = slots /\ nreq' = nreq /\ calls' = calls]_vars

\* C23 witness: such a request was refused while attempt records were stored
C23_Witness ==
  /\ response.status = 400
  /\ response.handler \in {"generateQuestions", "resetQuestionPool"}
  /\ response.body.message = "User email is required"
  /\ userAttempts # <<>>
\* a section score that is a number from 0 to 10
ValidScore(x) == x.type = "number" /\ x.num >= 0 /\ x.num <= 10

\* C24: scores are stored only when each of the three section scores is a
\* number from 0 to 10, so every student either has no test stored (the
\* three scores unset) or has three stored scores that are numbers in 0..10;
\* a request answered 400 or 404 leaves the stored scores as they were.
C24_OnlyValidScoresStored ==
  /\ [](\A i \in 1..Len(students) :
         LET stored == students[i].aptitudeScores
         IN IF stored.testTaken
            THEN \A s \in SectionNames : ValidScore(stored[s])
            ELSE stored = NoScores)
  /\ [][(response'.handler = "submitScores" /\ response'.status \in {400, 404})
          => students' = students]_vars
\* calculateAndShowResults runs in this step: the test screen gives way to
\* the results
Calculates == client.screen = "test" /\ client'.screen = "results"

\* the questions of section s to which the option chosen in the test in
\* progress is the right one
RightlyAnswered(s) ==
  {i \in 0..(Len(client.currentAptitudeQuestions[s]) - 1) :
     /\ <<s, i>> \in DOMAIN client.chosen
     /\ client.chosen[<<s, i>>] = client.currentAptitudeQuestions[s][i + 1]}

\* C25: the score calculateAndShowResults gives a section is the number of its
\* questions to which the option chosen in this test is the right one, an
\* integer from 0 to the number of questions of the section; options chosen in
\* an earlier test do not count.
C25_ScoreCountsRightAnswers ==
  [][Calculates =>
       \A s \in SectionNames :
         /\ client'.user.aptitudeScores[s] = ScoreNumber(Cardinality(RightlyAnswered(s)))
         /\ client'.user.aptitudeScores[s].num \in 0..Len(client.currentAptitudeQuestions[s])
         /\ client'.user \in client'.scoresWaiting]_vars

\* C25 witness: a second test ended with every quantitative question right, a
\* verbal question unanswered and no verbal question right
C25_Witness ==
  /\ client.screen = "results"
  /\ client.started = MaxFetches
  /\ client.questionsWaiting = 0
  /\ Cardinality(client.scoresWaiting) = MaxFetches
  /\ client.user.aptitudeScores.quantitative = ScoreNumber(SectionQuota)
  /\ client.user.aptitudeScores.verbal = ScoreNumber(0)
  /\ Len(client.currentAptitudeQuestions.verbal) = SectionQuota
  /\ <<"verbal", 0>> \notin DOMAIN client.chosen

\* a click on one of the three buttons of the test screen
TestButton ==
  NextQuestion \/ PrevQuestion \/ \E confirmed \in BOOLEAN : SubmitCurrentSection(confirmed)

\* C26: during a test currentSectionIndex is in 0..2 and currentQuestionIndex
\* is an index of a question of the current section; no click on next,
\* previous or submit lowers currentSectionIndex, a click that raises it sets
\* currentQuestionIndex to 0, and the scores are calculated only by the submit
\* of the last section.
C26_TestPosition ==
  /\ [](client.screen = "test" =>
          /\ client.currentSectionIndex \in 0..(Len(Sections) - 1)
          /\ client.currentQuestionIndex \in 0..(Len(CurrentQuestions(client)) - 1))
  /\ [][TestButton =>
          /\ client'.currentSectionIndex >= client.currentSectionIndex
          /\ client'.currentSectionIndex > client.currentSectionIndex
               => client'.currentQuestionIndex = 0]_vars
  /\ [][(Calculates \/ client'.user # client.user) =>
          /\ client.currentSectionIndex = Len(Sections) - 1
          /\ \E confirmed \in BOOLEAN : SubmitCurrentSection(confirmed)]_vars
\* a request goes to /recommendations, or the recommendations screen opens,
\* in this step
AsksRecommendations ==
  \/ client'.asked > client.asked
  \/ client'.recommendationsWaiting > client.recommendationsWaiting
  \/ client'.screen = "recommendations" /\ client.screen # "recommendations"

\* C27: a request is sent to /recommendations, and the recommendations screen
\* opened, only when a profile is stored, its testTakenAt is set and the sum of
\* its three section scores (null counting 0) is more than 3 times 4.
C27_RecommendationsGuarded ==
  [][AsksRecommendations =>
       /\ client.user # NoUser
       /\ client.user.aptitudeScores.testTaken
       /\ OrZero(client.user.aptitudeScores.quantitative)
            + OrZero(client.user.aptitudeScores.logical)
            + OrZero(client.user.aptitudeScores.verbal) > 12
       /\ client'.asked = client.asked + 1
       /\ client'.screen = "recommendations"]_vars

\* C27 witness: a request was sent for a profile whose scores are 4, 4 and 5,
\* the lowest sum above the limit
C27_Witness ==
  /\ client.user # NoUser
  /\ client.user.aptitudeScores.testTaken
  /\ client.user.aptitudeScores.quantitative = ScoreNumber(4)
  /\ client.user.aptitudeScores.logical = ScoreNumber(4)
  /\ client.user.aptitudeScores.verbal = ScoreNumber(5)
  /\ client.asked = 1
  /\ client.recommendationsWaiting = 1
  /\ client.screen = "recommendations"
\* C28: from a logout until a login or a signup succeeds, no profile (and so
\* no password) is in localStorage, no session email is, and isLoggedIn() is
\* false, whatever replies arrive in between; the offline fallback therefore
\* logs nobody in.
C28_LoggedOutStaysOut ==
  client.loggedOut =>
    /\ client.user = NoUser
    /\ client.session = NoEmail
    /\ ~isLoggedIn(client)

\* the handlers that read or write a student's document
AccountHandlers == {"signup", "login", "getProfile", "submitScores"}
\* the member names under which a hash or a password travels
SecretMembers == {"passwordHash", "password"}
\* the objects of a response body: the body and its user member
BodyObjects(body) == {body} \cup (IF "user" \in DOMAIN body THEN {body.user} ELSE {})

\* C29: no response of signup, login, getProfile or submitScores, with any
\* status, has a passwordHash or password member, in the body or in its user
\* object.
C29_NoSecretInResponse ==
  response.handler \in AccountHandlers =>
    \A object \in BodyObjects(response.body) : DOMAIN object \cap SecretMembers = {}

\* a signup has replaced the stored hash and the profile of that student has
\* been served
C29_Witness ==
  /\ response.handler = "getProfile" /\ response.status = 200
  /\ response.body.user.email = "a@x"
  /\ students[1].passwordHash = Hash("p2")
  /\ DOMAIN response.body.user =
       {"email", "loginCount", "lastLoginAt", "aptitudeScores"}

\* the login in slot a is answered in this step without reaching recordLogin
LoginTurnedDown(a) ==
  /\ auth.slot[a].kind = "login" /\ auth.slot[a].state = "finding"
  /\ auth'.slot[a].state = "done"
\* the response to a login that names no account with this password
InvalidLogin ==
  [req |-> 0, handler |-> "login", status |-> 401,
   body |-> [ok |-> JFalse, message |-> "Invalid email or password."]]
\* the email of the login in slot a has no document
UnknownEmail(a) == FindByEmail(students, auth.slot[a].email) = 0

====
